---- MODULE Spec2Model ----
(***************************************************************************)
(* Model of the retrieval core of Ultra-Doc-Intelligence:                  *)
(*   backend/document_processor.py  chunk_text, _find_sentence_break       *)
(*   backend/vector_store.py        save_index, search_index               *)
(*   backend/guardrails.py          apply_retrieval_guardrail              *)
(*   backend/rag_engine.py          ask_question                           *)
(* Texts are sequences of one-character strings.  Similarities are fixed   *)
(* point numbers in thousandths (1000 stands for 1.0).                     *)
(***************************************************************************)
EXTENDS Integers, Sequences, FiniteSets, TLC

VARIABLES
    raw_text,        \* chunk_text: the argument as passed by the caller
    CHUNK_SIZE,      \* settings.CHUNK_SIZE
    CHUNK_OVERLAP,   \* settings.CHUNK_OVERLAP
    text,            \* chunk_text: local text (after strip)
    start,           \* chunk_text: local start
    chunks,          \* chunk_text: local chunks
    windows,         \* history: the [start, end) slice of every loop iteration
    chunk_pc,        \* chunk_text: "entry", "loop", "done" or "ValueError"
    faiss_file,      \* INDEX_DIR/<document_id>.faiss, per document id
    json_file,       \* INDEX_DIR/<document_id>.json, per document id
    _index_lock,     \* vector_store._index_lock: the holding thread, or None
    th,              \* per thread: the running call, its position and locals
    calls,           \* history: number of calls started so far
    SIMILARITY_THRESHOLD,  \* settings.SIMILARITY_THRESHOLD, in thousandths
    retrieved_chunks,      \* apply_retrieval_guardrail: the list passed in
    guard_arg,             \* history: retrieved_chunks as it was at the call
    guard_out,             \* apply_retrieval_guardrail: (passed, filtered)
    guard_pc,              \* apply_retrieval_guardrail: "call" or "returned"
    guard_log,             \* history: threshold and result of every call so far
    MAX_RETRIES,           \* settings.MAX_RETRIES
    TOP_K_CHUNKS,          \* settings.TOP_K_CHUNKS
    ask,                   \* ask_question: position, locals and call counts
    CONFIDENCE_LOW_THRESHOLD,     \* settings.CONFIDENCE_LOW_THRESHOLD, thousandths
    CONFIDENCE_MEDIUM_THRESHOLD,  \* settings.CONFIDENCE_MEDIUM_THRESHOLD, thousandths
    scoring,                 \* compute_confidence_score: position, arguments, result
    fmt,                   \* format_guardrail_response: position, arguments, result
    parse,                 \* _parse_and_validate: position, argument, result
    upload,                \* upload_document: position, locals and call counts
    document_db            \* database.document_db: the ids of the active documents

chunkVars == <<raw_text, CHUNK_SIZE, CHUNK_OVERLAP, text, start, chunks,
               windows, chunk_pc>>

indexVars == <<faiss_file, json_file, _index_lock, th, calls>>

guardVars == <<SIMILARITY_THRESHOLD, retrieved_chunks, guard_arg, guard_out,
               guard_pc, guard_log>>

askVars == <<MAX_RETRIES, TOP_K_CHUNKS, ask>>

scoreVars == <<CONFIDENCE_LOW_THRESHOLD, CONFIDENCE_MEDIUM_THRESHOLD, scoring, fmt>>

extractVars == <<parse>>

uploadVars == <<upload, document_db>>

vars == <<chunkVars, indexVars, guardVars, askVars, scoreVars, extractVars,
          uploadVars>>

notChunkVars == <<indexVars, guardVars, askVars, scoreVars, extractVars, uploadVars>>

notGuardVars == <<chunkVars, indexVars, askVars, scoreVars, extractVars, uploadVars>>

notIndexVars == <<chunkVars, guardVars, askVars, scoreVars, extractVars, uploadVars>>

notScoreVars == <<chunkVars, indexVars, guardVars, askVars, extractVars,
                  uploadVars>>

notExtractVars == <<chunkVars, indexVars, guardVars, askVars, scoreVars,
                    uploadVars>>

----------------------------------------------------------------------------
(* Bounds and input sets *)

MaxLen == 5

MaxChunk == 4

MaxCalls == 2       \* save_index / search_index calls in one run

MaxChunks == 2      \* longest chunk list and embedding list passed to save_index

MaxTopK == 2        \* largest top_k passed to search_index

MaxResults == 3     \* longest list passed to apply_retrieval_guardrail

MaxRetries == 2     \* largest configured settings.MAX_RETRIES

MaxGuardCalls == 2  \* calls of apply_retrieval_guardrail on one list

MaxWords == 2       \* words in a chunk text or an answer that is scored

MaxScoreChunks == 2 \* longest list passed to compute_confidence_score

Alphabet == {"a", " ", "\n", ".", ";"}

Texts == UNION {[1..n -> Alphabet] : n \in 0..MaxLen}

Threads == {"t1", "t2"}

Docs == {"d1", "d2"}

None == "None"

----------------------------------------------------------------------------
(* Strings *)

Min(a, b) == IF a < b THEN a ELSE b

\* str.isspace() on one character of the alphabet
IsSpace(c) == c \in {" ", "\n"}

\* s[i:j] of Python, 0 <= i, j <= len(s)
Slice(s, i, j) == IF j <= i THEN << >> ELSE SubSeq(s, i + 1, j)

\* mutant: strip() left out
Strip_Identity(s) == s

\* str.strip(): drop leading and trailing whitespace
Strip(s) ==
    LET nonws == {i \in 1..Len(s) : ~IsSpace(s[i])}
    IN  IF nonws = {} THEN << >>
        ELSE LET lo == CHOOSE i \in nonws : \A j \in nonws : i <= j
                 hi == CHOOSE i \in nonws : \A j \in nonws : j <= i
             IN  SubSeq(s, lo, hi)

\* str.rfind(d): highest 0-based offset at which d occurs in s, or -1
RFind(s, d) ==
    LET hits == {i \in 0..(Len(s) - Len(d)) : Slice(s, i, i + Len(d)) = d}
    IN  IF hits = {} THEN -1
        ELSE CHOOSE i \in hits : \A j \in hits : j <= i

\* str.strip(chars): drop leading and trailing characters that are in cs
StripChars(s, cs) ==
    LET keep == {i \in 1..Len(s) : s[i] \notin cs}
    IN  IF keep = {} THEN << >>
        ELSE LET lo == CHOOSE i \in keep : \A j \in keep : i <= j
                 hi == CHOOSE i \in keep : \A j \in keep : j <= i
             IN  SubSeq(s, lo, hi)

\* the lower-case letter of every upper-case letter
LowerOf ==
    [A |-> "a", B |-> "b", C |-> "c", D |-> "d", E |-> "e", F |-> "f", G
    |-> "g", H |-> "h", I |-> "i", J |-> "j", K |-> "k", L |-> "l", M |->
    "m", N |-> "n", O |-> "o", P |-> "p", Q |-> "q", R |-> "r", S |-> "s",
    T |-> "t", U |-> "u", V |-> "v", W |-> "w", X |-> "x", Y |-> "y", Z
    |-> "z"]

\* str.lower()
Lower(s) == [i \in 1..Len(s) |-> IF s[i] \in DOMAIN LowerOf THEN LowerOf[s[i]] ELSE s[i]]

\* the n-th smallest element of a set of integers
Nth(S, n) == CHOOSE x \in S : Cardinality({y \in S : y < x}) = n - 1

\* str.split(): the maximal runs of non-whitespace characters, in order
Split(s) ==
    LET starts == {i \in 1..Len(s) : ~IsSpace(s[i]) /\ (i = 1 \/ IsSpace(s[i - 1]))}
        last(i) == CHOOSE j \in i..Len(s) :
                       /\ \A k \in i..j : ~IsSpace(s[k])
                       /\ (j = Len(s) \/ IsSpace(s[j + 1]))
    IN  [n \in 1..Cardinality(starts) |-> SubSeq(s, Nth(starts, n), last(Nth(starts, n)))]

\* sep.join(parts)
RECURSIVE Join(_, _)
Join(parts, sep) ==
    IF parts = << >> THEN << >>
    ELSE IF Len(parts) = 1 THEN parts[1]
    ELSE parts[1] \o sep \o Join(Tail(parts), sep)

\* "p in s" for strings: p occurs in s
Contains(s, p) == \E i \in 0..(Len(s) - Len(p)) : Slice(s, i, i + Len(p)) = p

----------------------------------------------------------------------------
(* document_processor.py: chunk_text *)

\* the delimiter list of _find_sentence_break, in its priority order
Delimiters == << <<"\n", "\n">>, <<"\n">>, <<".", " ">>, <<"?", " ">>,
                 <<"!", " ">>, <<";", " ">> >>

\* the largest power of two that does not exceed m
RECURSIVE Pow2Floor(_)
Pow2Floor(m) == IF m < 2 THEN 1 ELSE 2 * Pow2Floor(m \div 2)

\* int(n * 0.7) in double precision.  The constant 0.7 is stored as
\* 0.7 - 2^-52 / 5 and the product is rounded to the nearest double (ties to
\* even): when 7n/10 is an integer m, the product is m - n * 2^-52 / 5, which
\* is rounded to the double below m when n / 5 exceeds half the spacing
\* 2^-52 * Pow2Floor(m) of the doubles there, and int() then gives m - 1
\* (n = 90, 170, 180, 330, ...).  Otherwise the result is floor(7n/10).
IntOfProduct(n) ==
    LET m == (7 * n) \div 10
    IN  IF n > 0 /\ n % 10 = 0 /\ 2 * n > 5 * Pow2Floor(m) THEN m - 1 ELSE m

\* line 144: start + int((end - start) * 0.7)
SearchStart(s, e) == s + IntOfProduct(e - s)

_find_sentence_break(t, s, e) ==
    LET search_start  == SearchStart(s, e)
        search_region == Slice(t, search_start, e)
        found == {k \in 1..Len(Delimiters) : RFind(search_region, Delimiters[k]) # -1}
    IN  IF found = {} THEN e
        ELSE LET k == CHOOSE k \in found : \A m \in found : k <= m
             IN  search_start + RFind(search_region, Delimiters[k]) + Len(Delimiters[k])

\* mutant: the slice is not limited to CHUNK_SIZE characters
SliceEnd_WholeText(t, s) == Len(t)

\* the end of the slice that starts at s (lines 119-124)
SliceEnd(t, s) ==
    LET end == Min(s + CHUNK_SIZE, Len(t))
    IN  IF end < Len(t)
        THEN LET adjusted_end == _find_sentence_break(t, s, end)
             IN  IF adjusted_end > s THEN adjusted_end ELSE end
        ELSE end

\* mutant: the overlap added instead of subtracted
NextStart_Forward(s, end) == end + CHUNK_OVERLAP

\* mutant: no guard against an overlap that reaches back to the start
NextStart_Unguarded(s, end) == end - CHUNK_OVERLAP

\* start of the next slice (lines 136-137)
NextStart(s, end) ==
    LET next_start == end - CHUNK_OVERLAP
    IN  IF next_start > s THEN next_start ELSE end

\* mutant: the index counts loop iterations instead of emitted chunks
NewChunk_SliceIndex(cs, chunk_content, s, end) ==
    [index |-> Len(windows), text |-> chunk_content, char_start |-> s, char_end |-> end]

\* the dict appended for a non-empty slice (lines 129-134)
NewChunk(cs, chunk_content, s, end) ==
    [index |-> Len(cs), text |-> chunk_content, char_start |-> s, char_end |-> end]

\* window sizes at which int(n * 0.7) is below, at and above 70% of n
LongSizes == {10, 100, 170, 180}

LongOverlaps == {0, 3}

\* n letters
Pad(n) == [i \in 1..n |-> "a"]

LongDelimiters == {<< >>, <<"\n">>, <<"?", " ">>, <<"!", " ">>}

\* a delimiter just before the mark (the offset int(n * 0.7) reaches when it
\* falls short), at the mark or after it, a second one two letters later,
\* and more text after the first window
LongTexts(n) ==
    {Pad(off) \o d1 \o Pad(2) \o d2 \o Pad(n - off) :
        off \in {((7 * n) \div 10) - 1, (7 * n) \div 10, ((7 * n) \div 10) + 2},
        d1 \in LongDelimiters, d2 \in LongDelimiters}

\* text = text.strip(); if not text: raise ValueError
ChunkTextEntry ==
    /\ chunk_pc = "entry"
    /\ text' = Strip(raw_text)
    /\ chunk_pc' = IF Strip(raw_text) = << >> THEN "ValueError" ELSE "loop"
    /\ UNCHANGED <<raw_text, CHUNK_SIZE, CHUNK_OVERLAP, start, chunks, windows>>
    /\ UNCHANGED notChunkVars

\* one iteration of the while loop
ChunkTextIterate ==
    /\ chunk_pc = "loop"
    /\ start < Len(text)
    /\ LET end == SliceEnd(text, start)
           chunk_content == Strip(Slice(text, start, end))
       IN  /\ chunks' = IF chunk_content # << >>
                        THEN Append(chunks, NewChunk(chunks, chunk_content, start, end))
                        ELSE chunks
           /\ windows' = Append(windows, <<start, end>>)
           /\ start' = NextStart(start, end)
    /\ UNCHANGED <<raw_text, CHUNK_SIZE, CHUNK_OVERLAP, text, chunk_pc>>
    /\ UNCHANGED notChunkVars

\* the loop condition fails: return chunks
ChunkTextReturn ==
    /\ chunk_pc = "loop"
    /\ ~(start < Len(text))
    /\ chunk_pc' = "done"
    /\ UNCHANGED <<raw_text, CHUNK_SIZE, CHUNK_OVERLAP, text, start, chunks, windows>>
    /\ UNCHANGED notChunkVars

----------------------------------------------------------------------------
(* guardrails.py: apply_retrieval_guardrail *)

\* similarities of the result rows tried, in thousandths
Sims == {-707, 0, 249, 250, 251, 1000}

Thresholds == {0, 250, 1000}

ResultRows(n) == {r \in [1..n -> [text : {<<"c">>}, index : 0..(n - 1), similarity : Sims]] :
                     \A i \in 1..n : r[i].index = i - 1}

ResultLists == UNION {ResultRows(n) : n \in 0..MaxResults}

\* mutant: a row at the threshold is dropped
Kept_Strict(chunk) == chunk.similarity > SIMILARITY_THRESHOLD

\* mutant: the comparison turned round
Kept_Below(chunk) == chunk.similarity <= SIMILARITY_THRESHOLD

\* the condition of the list comprehension (line 10)
Kept(chunk) == chunk.similarity >= SIMILARITY_THRESHOLD

\* lines 8-20
apply_retrieval_guardrail(rc) ==
    LET filtered == SelectSeq(rc, Kept)
    IN  [passed |-> Len(filtered) > 0, filtered |-> filtered]

NoGuardOut == [passed |-> FALSE, filtered |-> << >>]

\* apply_retrieval_guardrail(retrieved_chunks) is called and returns
GuardrailCall ==
    /\ guard_pc = "call"
    /\ guard_out' = apply_retrieval_guardrail(retrieved_chunks)
    /\ guard_pc' = "returned"
    /\ guard_log' = Append(guard_log, [threshold |-> SIMILARITY_THRESHOLD,
                                       out |-> guard_out'])
    /\ UNCHANGED <<SIMILARITY_THRESHOLD, retrieved_chunks, guard_arg>>
    /\ UNCHANGED notGuardVars

\* the same list is passed again under another configured threshold
GuardrailCallAgain ==
    /\ guard_pc = "returned"
    /\ Len(guard_log) < MaxGuardCalls
    /\ SIMILARITY_THRESHOLD' \in Thresholds
    /\ guard_pc' = "call"
    /\ UNCHANGED <<retrieved_chunks, guard_arg, guard_out, guard_log>>
    /\ UNCHANGED notGuardVars

----------------------------------------------------------------------------
(* guardrails.py: compute_confidence_score, format_guardrail_response *)

RECURSIVE SumSeq(_)
\* sum(similarities)
SumSeq(xs) == IF xs = << >> THEN 0 ELSE xs[1] + SumSeq(Tail(xs))

\* max(similarities), min(similarities)
SeqMax(xs) == CHOOSE x \in {xs[i] : i \in 1..Len(xs)} : \A i \in 1..Len(xs) : xs[i] <= x

SeqMin(xs) == CHOOSE x \in {xs[i] : i \in 1..Len(xs)} : \A i \in 1..Len(xs) : x <= xs[i]

\* the characters stripped from an answer word (line 64)
Punctuation ==
    {".", ",", ";", ":", "!", "?", "\"", "'", "(", ")", "[", "]", "{", "}"}

\* lines 60-61: the lower-cased source text, split on whitespace, as a set
SourceWords(cs) ==
    LET source_text == Lower(Join([i \in 1..Len(cs) |-> cs[i].text], <<" ">>))
        words == Split(source_text)
    IN  {words[i] : i \in 1..Len(words)}

\* the filter of line 66, applied to the word as it stands in the answer
LongWord(word) == Len(word) > 3

\* lines 63-67: the answer's words of more than 3 characters, lower-cased
\* and with surrounding punctuation stripped
AnswerWords(answer) ==
    LET long == SelectSeq(Split(answer), LongWord)
    IN  [i \in 1..Len(long) |-> StripChars(Lower(long[i]), Punctuation)]

\* _compute_answer_coverage as the fraction num / den; 1.0 without words
_compute_answer_coverage(answer, cs) ==
    LET source_words == SourceWords(cs)
        answer_words == AnswerWords(answer)
        grounded == Cardinality({i \in 1..Len(answer_words) : answer_words[i] \in source_words})
    IN  IF answer_words = << >> THEN [num |-> 1, den |-> 1]
        ELSE [num |-> grounded, den |-> Len(answer_words)]

\* round(num / den, 3) in thousandths, num / den being in thousandths: the
\* nearest integer; a value halfway between two is stored in binary a little
\* above or below, so either neighbour may come out
Round3(num, den) ==
    LET q == num \div den
        r == num - q * den
    IN  IF 2 * r < den THEN {q}
        ELSE IF 2 * r > den THEN {q + 1}
        ELSE {q, q + 1}

\* mutant: an empty list scored like a single chunk of similarity 0 with a
\* neutral agreement
NoEvidenceScore_Neutral == (3 * 500) \div 10

\* line 28: the score without evidence
NoEvidenceScore == 0

\* mutant: the neutral value whatever the number of results
agreement_score_Neutral(similarities) == 500

\* lines 35-39: the agreement of the similarities, in thousandths
agreement_score(similarities) ==
    IF Len(similarities) >= 2
    THEN 1000 - Min(SeqMax(similarities) - SeqMin(similarities), 1000)
    ELSE 500

\* compute_confidence_score in thousandths: the values it may return.
\* 0.40 * retrieval + 0.30 * agreement + 0.30 * coverage, over the common
\* denominator 10 * len(similarities) * coverage.den
compute_confidence_score(filtered_chunks, answer) ==
    IF filtered_chunks = << >> THEN {NoEvidenceScore}
    ELSE LET similarities == [i \in 1..Len(filtered_chunks) |-> filtered_chunks[i].similarity]
             n == Len(similarities)
             \* n * retrieval_score, retrieval_score = min(sum / n, 1.0)
             retrieval_n == Min(SumSeq(similarities), 1000 * n)
             coverage == _compute_answer_coverage(answer, filtered_chunks)
         IN  Round3(4 * retrieval_n * coverage.den
                        + 3 * agreement_score(similarities) * n * coverage.den
                        + 3 * 1000 * coverage.num * n,
                    10 * n * coverage.den)

\* the answer of a refused response (lines 84-87)
RefusalMessage ==
    <<"N", "o", "t", " ", "f", "o", "u", "n", "d", " ", "i", "n", " ", "d",
    "o", "c", "u", "m", "e", "n", "t", ".", " ", "T", "h", "e", " ", "a",
    "v", "a", "i", "l", "a", "b", "l", "e", " ", "c", "o", "n", "t", "e",
    "x", "t", " ", "d", "o", "e", "s", " ", "n", "o", "t", " ", "c", "o",
    "n", "t", "a", "i", "n", " ", "e", "n", "o", "u", "g", "h", " ", "i",
    "n", "f", "o", "r", "m", "a", "t", "i", "o", "n", " ", "t", "o", " ",
    "a", "n", "s", "w", "e", "r", " ", "t", "h", "i", "s", " ", "q", "u",
    "e", "s", "t", "i", "o", "n", " ", "c", "o", "n", "f", "i", "d", "e",
    "n", "t", "l", "y", ".">>

\* the prefix of a soft-warned answer (line 103)
LowConfidencePrefix ==
    <<"U+26A0", "U+FE0F", " ", "L", "o", "w", " ", "c", "o", "n", "f", "i",
    "d", "e", "n", "c", "e", " ", "a", "n", "s", "w", "e", "r", ":", " ">>

\* mutant: a confidence at the low threshold is refused
BelowLow_Inclusive(confidence) == confidence <= CONFIDENCE_LOW_THRESHOLD

\* the comparison of line 81
BelowLow(confidence) == confidence < CONFIDENCE_LOW_THRESHOLD

\* format_guardrail_response (lines 81-108)
format_guardrail_response(confidence, answer, sources) ==
    IF BelowLow(confidence)
    THEN [answer |-> RefusalMessage, confidence |-> confidence, sources |-> sources,
          guardrail_triggered |-> TRUE,
          guardrail_reason |-> "Confidence below minimum threshold"]
    ELSE IF confidence < CONFIDENCE_MEDIUM_THRESHOLD
    THEN [answer |-> LowConfidencePrefix \o answer, confidence |-> confidence,
          sources |-> sources, guardrail_triggered |-> TRUE,
          guardrail_reason |-> "Confidence is moderate (U+2014) answer may be incomplete"]
    ELSE [answer |-> answer, confidence |-> confidence, sources |-> sources,
          guardrail_triggered |-> FALSE, guardrail_reason |-> None]

\* the words the scored texts are made of: plain, capitalised with a full
\* stop attached, short, and one of three letters with a full stop attached
ScoreWords ==
    {<<"r", "a", "t", "e">>,
     <<"R", "a", "t", "e", ".">>,
     <<"i", "s">>,
     <<"y", "e", "s", ".">>}

\* texts of up to MaxWords words, joined by single spaces
ScoreTexts ==
    {Join(ws, <<" ">>) : ws \in UNION {[1..n -> ScoreWords] : n \in 0..MaxWords}}

\* cosine similarities tried, in thousandths
ScoreSims == {-1000, 900, 1000}

\* the text of every chunk after the first
OtherChunkText == Join(<<<<"i", "s">>, <<"1", "5", "0", "0">>>>, <<" ">>)

\* lists of n result rows: the first text varies, every similarity varies
ScoreChunkLists(n) ==
    {[i \in 1..n |-> [text |-> IF i = 1 THEN t ELSE OtherChunkText,
                       index |-> i - 1, similarity |-> sims[i]]] :
        t \in ScoreTexts \ {<< >>}, sims \in [1..n -> ScoreSims]}

NoScore == [pc |-> "returned", filtered_chunks |-> << >>, answer |-> << >>,
            coverage |-> [num |-> 1, den |-> 1], confidence |-> 0]

\* compute_confidence_score(filtered_chunks, answer) is called and returns
ComputeConfidenceScore ==
    /\ scoring.pc = "call"
    /\ \E c \in compute_confidence_score(scoring.filtered_chunks, scoring.answer) :
          scoring' = [scoring EXCEPT
                      !.pc = "returned",
                      !.coverage = _compute_answer_coverage(scoring.answer,
                                                            scoring.filtered_chunks),
                      !.confidence = c]
    /\ UNCHANGED <<CONFIDENCE_LOW_THRESHOLD, CONFIDENCE_MEDIUM_THRESHOLD, fmt>>
    /\ UNCHANGED notScoreVars

\* confidences, thresholds, answers and source lists tried
FormatConfidences == {-250, 0, 399, 400, 401, 699, 700, 701, 1000}

ConfidenceThresholds == {200, 400, 700}

FormatAnswers == {<<"r", "a", "t", "e", " ", "1", "5", "0", "0">>, << >>}

FormatSources ==
    {<< >>, <<[chunk_index |-> 0, text |-> <<"r", "a", "t", "e">>, similarity |-> 900]>>}

NoFormatOut == [answer |-> << >>, confidence |-> 0, sources |-> << >>,
                guardrail_triggered |-> FALSE, guardrail_reason |-> None]

NoFormat == [pc |-> "returned", confidence |-> 0, answer |-> << >>,
             sources |-> << >>, response |-> NoFormatOut]

\* format_guardrail_response(confidence, answer, sources) is called and returns
FormatGuardrailResponse ==
    /\ fmt.pc = "call"
    /\ fmt' = [fmt EXCEPT
                 !.pc = "returned",
                 !.response = format_guardrail_response(fmt.confidence, fmt.answer,
                                                        fmt.sources)]
    /\ UNCHANGED <<CONFIDENCE_LOW_THRESHOLD, CONFIDENCE_MEDIUM_THRESHOLD, scoring>>
    /\ UNCHANGED notScoreVars

----------------------------------------------------------------------------
(* vector_store.py: save_index and search_index *)

\* An embedding is a plane vector: a direction in steps of 45 degrees and a
\* length; len = 0 is the zero vector.
Vecs == <<[dir |-> 0, len |-> 2], [dir |-> 2, len |-> 1]>>

Queries == {[dir |-> 0, len |-> 2], [dir |-> 1, len |-> 1]}

\* the embedding lists handed to save_index: n vectors, alternately the two
\* of Vecs, so that neighbours differ and a query between them scores a tie
EmbList(n) == [i \in 1..n |-> Vecs[((i - 1) % 2) + 1]]

EmbLists == {EmbList(n) : n \in 0..MaxChunks}

\* the text of the chunk with index i
ChunkTextOf(i) ==
    IF i % 2 = 0 THEN <<"r", "a", "t", "e", " ", "i", "s", " ", "1", "5", "0", "0">>
    ELSE <<"P", "i", "c", "k", "u", "p", " ", "M", "o", "n", "d", "a", "y", ".">>

\* the chunk lists handed to save_index: chunk i has index i and its own text
ChunkList(n) == [i \in 1..n |-> [index |-> i - 1, text |-> ChunkTextOf(i - 1)]]

ChunkLists == {ChunkList(n) : n \in 0..MaxChunks}

\* chunk texts of the documents asked about: a short one, one of exactly 300
\* characters and one of 301
AskTexts == {ChunkTextOf(0), [i \in 1..300 |-> "a"], [i \in 1..301 |-> "a"]}

\* the chunk list of a document whose first chunk has text t
AskChunkList(n, t) ==
    [i \in 1..n |-> [index |-> i - 1,
                     text |-> IF i = 1 THEN t ELSE ChunkTextOf(i - 1)]]

\* Python's None where an embedding is expected
NoneEmbedding == [dir |-> 0, len |-> -1]

IsNone(v) == v.len < 0

\* cosine of k * 45 degrees, in thousandths
Cos == <<1000, 707, 0, -707, -1000, -707, 0, 707>>

\* faiss.normalize_L2 on one row: unit length, the zero vector left as it is
normalize_L2(v) == IF v.len = 0 THEN v ELSE [dir |-> v.dir, len |-> 1]

\* inner product of two vectors, in thousandths
InnerProduct(a, b) == a.len * b.len * Cos[((a.dir - b.dir + 8) % 8) + 1]

\* IndexFlatIP.search(query, k) on the stored vectors: the rows it may return.
\* The k best inner products in non-increasing order; faiss fixes no order
\* among equal scores, and pads with -1 (no row) when k > ntotal.
IndexSearch(vectors, q, k) ==
    LET n == Len(vectors)
        m == Min(k, n)
        score(i) == InnerProduct(q, vectors[i + 1])
    IN  {ids \in [1..m -> 0..(n - 1)] :
            /\ \A i, j \in 1..m : i # j => ids[i] # ids[j]
            /\ \A i \in 1..(m - 1) : score(ids[i]) >= score(ids[i + 1])
            /\ \A x \in 0..(n - 1) :
                   (\A i \in 1..m : ids[i] # x)
                       => \A i \in 1..m : score(ids[i]) >= score(x)}

\* a path at which nothing has been written yet
NoFaissFile == [exists |-> FALSE, call |-> 0, written_for |-> None, complete |-> FALSE, vectors |-> << >>]

NoJsonFile == [exists |-> FALSE, call |-> 0, written_for |-> None, complete |-> FALSE, chunks |-> << >>]

Idle == [op |-> "none", pc |-> "idle", call |-> 0, document_id |-> None,
         chunks |-> << >>, embeddings |-> << >>, query_embedding |-> NoneEmbedding,
         top_k |-> 0, vectors |-> << >>, index |-> NoFaissFile,
         chunks_read |-> NoJsonFile,
         results |-> << >>, error |-> None]

\* mutant: one file name for every document
IndexPath_Shared(document_id) == "d1"

\* index_path / chunks_path: the files of one document id (lines 27-28, 47-48)
IndexPath(document_id) == document_id

\* mutant: the lock is not taken
LockFree_Always(t) == TRUE

\* "with _index_lock:" may be entered
LockFree(t) == _index_lock = None

\* the threads are alike: a call is taken by the first idle one
FirstIdle(t) == t = "t2" => th["t1"].pc # "idle"

\* save_index is called; lines 20-28: the vectors are normalized and added to
\* a new IndexFlatIP.  vectors.shape[1] does not exist for an empty list.
SaveIndexBegin(t, d, cs, es) ==
    th' = [th EXCEPT ![t] =
             [Idle EXCEPT !.op = "save_index", !.call = calls + 1,
                          !.document_id = d, !.chunks = cs,
                          !.embeddings = es,
                          !.vectors = [i \in 1..Len(es) |-> normalize_L2(es[i])],
                          !.pc = IF es = << >> THEN "raised" ELSE "save_lock",
                          !.error = IF es = << >> THEN "IndexError" ELSE None]]

\* save_index is called on its own
SaveIndexEnter(t) ==
    /\ th[t].pc = "idle"
    /\ FirstIdle(t)
    /\ calls < MaxCalls
    /\ \E d \in Docs, cs \in ChunkLists, es \in EmbLists : SaveIndexBegin(t, d, cs, es)
    /\ calls' = calls + 1
    /\ UNCHANGED <<faiss_file, json_file, _index_lock>>
    /\ UNCHANGED notIndexVars

\* line 30: with _index_lock
SaveIndexLock(t) ==
    /\ th[t].pc = "save_lock"
    /\ LockFree(t)
    /\ _index_lock' = t
    /\ th' = [th EXCEPT ![t].pc = "save_open_faiss"]
    /\ UNCHANGED <<faiss_file, json_file, calls>>
    /\ UNCHANGED notIndexVars

\* line 31: faiss.write_index creates or truncates the file ...
SaveIndexOpenFaiss(t) ==
    /\ th[t].pc = "save_open_faiss"
    /\ faiss_file' = [faiss_file EXCEPT ![IndexPath(th[t].document_id)] =
                        [exists |-> TRUE, call |-> th[t].call, written_for |-> th[t].document_id, complete |-> FALSE,
                         vectors |-> << >>]]
    /\ th' = [th EXCEPT ![t].pc = "save_write_faiss"]
    /\ UNCHANGED <<json_file, _index_lock, calls>>
    /\ UNCHANGED notIndexVars

\* ... and writes the index into it
SaveIndexWriteFaiss(t) ==
    /\ th[t].pc = "save_write_faiss"
    /\ faiss_file' = [faiss_file EXCEPT ![IndexPath(th[t].document_id)] =
                        [exists |-> TRUE, call |-> th[t].call, written_for |-> th[t].document_id, complete |-> TRUE,
                         vectors |-> th[t].vectors]]
    /\ th' = [th EXCEPT ![t].pc = "save_open_json"]
    /\ UNCHANGED <<json_file, _index_lock, calls>>
    /\ UNCHANGED notIndexVars

\* line 32: open(chunks_path, "w") creates or truncates the file
SaveIndexOpenJson(t) ==
    /\ th[t].pc = "save_open_json"
    /\ json_file' = [json_file EXCEPT ![IndexPath(th[t].document_id)] =
                       [exists |-> TRUE, call |-> th[t].call, written_for |-> th[t].document_id, complete |-> FALSE,
                        chunks |-> << >>]]
    /\ th' = [th EXCEPT ![t].pc = "save_dump"]
    /\ UNCHANGED <<faiss_file, _index_lock, calls>>
    /\ UNCHANGED notIndexVars

\* line 33: json.dump, then the file is closed, the lock released and
\* save_index returns
SaveIndexDump(t) ==
    /\ th[t].pc = "save_dump"
    /\ json_file' = [json_file EXCEPT ![IndexPath(th[t].document_id)] =
                       [exists |-> TRUE, call |-> th[t].call, written_for |-> th[t].document_id, complete |-> TRUE,
                        chunks |-> th[t].chunks]]
    /\ _index_lock' = None
    /\ th' = [th EXCEPT ![t].pc = "returned"]
    /\ UNCHANGED <<faiss_file, calls>>
    /\ UNCHANGED notIndexVars

\* mutant: only the .faiss file is looked for, as index_exists does
Missing_FaissOnly(d) == ~faiss_file[IndexPath(d)].exists

\* line 50: one of the two files of the document is not there
Missing(d) ==
    \/ ~faiss_file[IndexPath(d)].exists
    \/ ~json_file[IndexPath(d)].exists

\* search_index(d, q, k) is entered by thread t; lines 44-51
SearchIndexBegin(t, d, q, k) ==
    th' = [th EXCEPT ![t] =
             [Idle EXCEPT !.op = "search_index", !.call = calls + 1,
                          !.document_id = d, !.query_embedding = q, !.top_k = k,
                          !.pc = IF Missing(d) THEN "raised" ELSE "search_lock",
                          !.error = IF Missing(d) THEN "FileNotFoundError"
                                    ELSE None]]

\* search_index is called on its own
SearchIndexEnter(t) ==
    /\ th[t].pc = "idle"
    /\ FirstIdle(t)
    /\ calls < MaxCalls
    /\ \E d \in Docs, q \in Queries, k \in 1..MaxTopK : SearchIndexBegin(t, d, q, k)
    /\ calls' = calls + 1
    /\ UNCHANGED <<faiss_file, json_file, _index_lock>>
    /\ UNCHANGED notIndexVars

\* line 53: with _index_lock
SearchIndexLock(t) ==
    /\ th[t].pc = "search_lock"
    /\ LockFree(t)
    /\ _index_lock' = t
    /\ th' = [th EXCEPT ![t].pc = "search_read_faiss"]
    /\ UNCHANGED <<faiss_file, json_file, calls>>
    /\ UNCHANGED notIndexVars

\* line 54: faiss.read_index
SearchIndexReadFaiss(t) ==
    /\ th[t].pc = "search_read_faiss"
    /\ th' = [th EXCEPT ![t].index = faiss_file[IndexPath(th[t].document_id)],
                        ![t].pc = "search_read_json"]
    /\ UNCHANGED <<faiss_file, json_file, _index_lock, calls>>
    /\ UNCHANGED notIndexVars

\* lines 55-56: json.load, then the lock is released
SearchIndexReadJson(t) ==
    /\ th[t].pc = "search_read_json"
    /\ th' = [th EXCEPT ![t].chunks_read = json_file[IndexPath(th[t].document_id)],
                        ![t].pc = "search_rank"]
    /\ _index_lock' = None
    /\ UNCHANGED <<faiss_file, json_file, calls>>
    /\ UNCHANGED notIndexVars

\* the result rows for the ids faiss returned (lines 63-71)
Results(ids, scores, cs) ==
    [i \in 1..Len(ids) |-> [text       |-> cs[ids[i] + 1].text,
                            index      |-> cs[ids[i] + 1].index,
                            similarity |-> scores[i]]]

\* lines 58-74: the query is normalized, the index searched for
\* min(top_k, len(chunks)) rows, and the rows are paired with the chunks.
\* A file cut short cannot be loaded; a query of None has no second
\* dimension to normalize; k = 0 is refused by faiss; an id with no chunk
\* raises IndexError.
SearchIndexRank(t) ==
    /\ th[t].pc = "search_rank"
    /\ LET index == th[t].index
           cs == th[t].chunks_read
           query_vector == normalize_L2(th[t].query_embedding)
       IN  IF ~index.complete \/ ~cs.complete
           THEN th' = [th EXCEPT ![t].pc = "raised", ![t].error = "RuntimeError"]
           ELSE IF IsNone(th[t].query_embedding)
           THEN th' = [th EXCEPT ![t].pc = "raised", ![t].error = "IndexError"]
           ELSE LET k == Min(th[t].top_k, Len(cs.chunks))
                IN  IF k = 0
                    THEN th' = [th EXCEPT ![t].pc = "raised",
                                          ![t].error = "AssertionError"]
                    ELSE \E ids \in IndexSearch(index.vectors, query_vector, k) :
                           IF \E i \in 1..Len(ids) : ids[i] >= Len(cs.chunks)
                           THEN th' = [th EXCEPT ![t].pc = "raised",
                                                 ![t].error = "IndexError"]
                           ELSE th' = [th EXCEPT
                                  ![t].pc = "returned",
                                  ![t].results = Results(ids,
                                      [i \in 1..Len(ids) |->
                                          InnerProduct(query_vector,
                                                       index.vectors[ids[i] + 1])],
                                      cs.chunks)]
    /\ UNCHANGED <<faiss_file, json_file, _index_lock, calls>>
    /\ UNCHANGED notIndexVars

\* the caller takes the result or the exception; the thread is free again
CallEnds(t) ==
    /\ th[t].pc \in {"returned", "raised"}
    /\ th' = [th EXCEPT ![t] = Idle]
    /\ UNCHANGED <<faiss_file, json_file, _index_lock, calls>>
    /\ UNCHANGED notIndexVars

----------------------------------------------------------------------------
(* rag_engine.py: ask_question, steps 1 to 5 *)

\* message contents the chat model may give: grounded in chunk 0 (with
\* whitespace around it), not grounded, and refusals in two letter cases
Answers ==
    {<<" ", "r", "a", "t", "e", " ", "i", "s", " ", "1", "5", "0", "0", "\n">>,
     <<"P", "i", "c", "k", "u", "p", " ", "T", "u", "e", "s", "d", "a", "y", ".">>,
     <<"N", "o", "t", " ", "f", "o", "u", "n", "d", " ", "i", "n", " ", "d", "o", "c", "u", "m", "e", "n", "t", ".">>,
     <<"N", "O", "T", " ", "F", "O", "U", "N", "D", " ", "I", "N", " ", "D", "O", "C", "U", "M", "E", "N", "T">>}

NoResponse == [answer |-> << >>, confidence |-> 0, sources |-> << >>,
               guardrail_triggered |-> FALSE, guardrail_reason |-> None]

NotAsked == [pc |-> "idle", document_id |-> None, attempt |-> 0,
             embed_calls |-> 0, search_calls |-> 0, chat_calls |-> 0,
             query_embedding |-> NoneEmbedding, searched |-> FALSE,
             retrieved_chunks |-> << >>, filtered_chunks |-> << >>,
             context |-> << >>,
             answered |-> FALSE, answer |-> << >>, confidence |-> 0,
             response |-> NoResponse, error |-> None]

\* the thread that runs ask_question
AskThread == "t1"

\* line 24: ask_question(document_id, question) is called; _embed_question
\* starts its loop at attempt 1
AskQuestion ==
    /\ ask.pc = "idle"
    /\ \E d \in Docs :
          ask' = [ask EXCEPT !.pc = "embed", !.document_id = d, !.attempt = 1]
    /\ UNCHANGED <<MAX_RETRIES, TOP_K_CHUNKS>>
    /\ UNCHANGED <<chunkVars, indexVars, guardVars, scoreVars, extractVars, uploadVars>>

\* lines 87-93: ollama.embed answers; the embedding is returned
EmbedQuestionSucceeds ==
    /\ ask.pc = "embed"
    /\ ask.attempt <= MAX_RETRIES
    /\ \E q \in Queries :
          ask' = [ask EXCEPT !.pc = "search", !.query_embedding = q,
                             !.embed_calls = @ + 1]
    /\ UNCHANGED <<MAX_RETRIES, TOP_K_CHUNKS>>
    /\ UNCHANGED <<chunkVars, indexVars, guardVars, scoreVars, extractVars, uploadVars>>

\* lines 95-101: ollama.embed raises; RuntimeError on the last attempt,
\* otherwise sleep and try again
EmbedQuestionFails ==
    /\ ask.pc = "embed"
    /\ ask.attempt <= MAX_RETRIES
    /\ ask' = IF ask.attempt = MAX_RETRIES
              THEN [ask EXCEPT !.pc = "raised", !.error = "RuntimeError",
                               !.embed_calls = @ + 1]
              ELSE [ask EXCEPT !.attempt = @ + 1, !.embed_calls = @ + 1]
    /\ UNCHANGED <<MAX_RETRIES, TOP_K_CHUNKS>>
    /\ UNCHANGED <<chunkVars, indexVars, guardVars, scoreVars, extractVars, uploadVars>>

\* line 87: range(1, MAX_RETRIES + 1) is empty; the function ends without a
\* return statement and yields None
EmbedQuestionFallsThrough ==
    /\ ask.pc = "embed"
    /\ ask.attempt > MAX_RETRIES
    /\ ask' = [ask EXCEPT !.pc = "search", !.query_embedding = NoneEmbedding]
    /\ UNCHANGED <<MAX_RETRIES, TOP_K_CHUNKS>>
    /\ UNCHANGED <<chunkVars, indexVars, guardVars, scoreVars, extractVars, uploadVars>>

\* line 31: search_index(document_id, query_embedding) is called, top_k
\* defaulting to settings.TOP_K_CHUNKS
AskSearchIndex ==
    /\ ask.pc = "search"
    /\ th[AskThread].pc = "idle"
    /\ SearchIndexBegin(AskThread, ask.document_id, ask.query_embedding, TOP_K_CHUNKS)
    /\ ask' = [ask EXCEPT !.pc = "in_search", !.search_calls = @ + 1]
    /\ UNCHANGED <<faiss_file, json_file, _index_lock, calls>>
    /\ UNCHANGED <<MAX_RETRIES, TOP_K_CHUNKS>>
    /\ UNCHANGED <<chunkVars, guardVars, scoreVars, extractVars, uploadVars>>

\* lines 104-106: one part per chunk, labelled with the chunk's index, in
\* list order; the parts stand for the string they are joined to
_build_context(cs) ==
    [i \in 1..Len(cs) |-> [section |-> cs[i].index, text |-> cs[i].text]]

\* the payload of lines 43-49
NoEvidenceResponse ==
    [answer |->
         <<"N", "o", "t", " ", "f", "o", "u", "n", "d", " ", "i", "n", " ", "d",
         "o", "c", "u", "m", "e", "n", "t", ".", " ", "N", "o", " ", "r", "e",
         "l", "e", "v", "a", "n", "t", " ", "s", "e", "c", "t", "i", "o", "n",
         "s", " ", "w", "e", "r", "e", " ", "f", "o", "u", "n", "d", " ", "f",
         "o", "r", " ", "y", "o", "u", "r", " ", "q", "u", "e", "s", "t", "i",
         "o", "n", ".">>,
     confidence |-> 0, sources |-> << >>, guardrail_triggered |-> TRUE,
     guardrail_reason |-> "No chunks passed similarity threshold"]

\* mutant: the guardrail's verdict is not looked at
Blocked_Never(passed) == FALSE

\* line 41: if not passed
Blocked(passed) == ~passed

\* lines 31-49: search_index raises, and so does ask_question; or it
\* returns, the guardrail is applied, and without a surviving chunk the
\* no-evidence payload is returned; otherwise _call_llm_with_retry starts
AskGuardrail ==
    /\ ask.pc = "in_search"
    /\ th[AskThread].pc \in {"returned", "raised"}
    /\ LET retrieved == th[AskThread].results
           g == apply_retrieval_guardrail(retrieved)
       IN  ask' = IF th[AskThread].pc = "raised"
                  THEN [ask EXCEPT !.pc = "raised", !.error = th[AskThread].error]
                  ELSE IF Blocked(g.passed)
                  THEN [ask EXCEPT !.pc = "returned", !.searched = TRUE,
                                   !.retrieved_chunks = retrieved,
                                   !.response = NoEvidenceResponse]
                  ELSE [ask EXCEPT !.pc = "chat", !.searched = TRUE,
                                   !.retrieved_chunks = retrieved,
                                   !.filtered_chunks = g.filtered,
                                   !.context = _build_context(g.filtered),
                                   !.attempt = 1]
    /\ th' = [th EXCEPT ![AskThread] = Idle]
    /\ UNCHANGED <<faiss_file, json_file, _index_lock, calls>>
    /\ UNCHANGED <<MAX_RETRIES, TOP_K_CHUNKS>>
    /\ UNCHANGED <<chunkVars, guardVars, scoreVars, extractVars, uploadVars>>

\* lines 110-123: ollama.chat answers; the stripped content is the answer
ChatSucceeds ==
    /\ ask.pc = "chat"
    /\ ask.attempt <= MAX_RETRIES
    /\ \E a \in Answers :
          ask' = [ask EXCEPT !.pc = "generated", !.answered = TRUE,
                             !.answer = Strip(a), !.chat_calls = @ + 1]
    /\ UNCHANGED <<MAX_RETRIES, TOP_K_CHUNKS>>
    /\ UNCHANGED <<chunkVars, indexVars, guardVars, scoreVars, extractVars, uploadVars>>

\* lines 125-131: ollama.chat raises; RuntimeError on the last attempt,
\* otherwise sleep and try again
ChatFails ==
    /\ ask.pc = "chat"
    /\ ask.attempt <= MAX_RETRIES
    /\ ask' = IF ask.attempt = MAX_RETRIES
              THEN [ask EXCEPT !.pc = "raised", !.error = "RuntimeError",
                               !.chat_calls = @ + 1]
              ELSE [ask EXCEPT !.attempt = @ + 1, !.chat_calls = @ + 1]
    /\ UNCHANGED <<MAX_RETRIES, TOP_K_CHUNKS>>
    /\ UNCHANGED <<chunkVars, indexVars, guardVars, scoreVars, extractVars, uploadVars>>

\* the phrase looked for in the lower-cased answer (line 67)
RefusalPhrase ==
    <<"n", "o", "t", " ", "f", "o", "u", "n", "d", " ", "i", "n", " ", "d", "o", "c", "u", "m", "e", "n", "t">>

\* mutant: the phrase is looked for in the answer as it is
RefusalFloor_CaseSensitive(confidence, answer) ==
    IF Contains(answer, RefusalPhrase) THEN Min(confidence, 200) ELSE confidence

\* lines 67-68: a refusing answer caps the confidence at 0.2
RefusalFloor(confidence, answer) ==
    IF Contains(Lower(answer), RefusalPhrase) THEN Min(confidence, 200) ELSE confidence

\* mutant: the chunk text in full
SourceText_Whole(t) == t

\* line 76: the first 300 characters, and "..." after a longer text
SourceText(t) ==
    Slice(t, 0, Min(300, Len(t))) \o (IF Len(t) > 300 THEN <<".", ".", ".">> ELSE << >>)

\* lines 73-80: one source per filtered chunk; round(similarity, 3) leaves a
\* number of thousandths as it is
Sources(filtered_chunks) ==
    [i \in 1..Len(filtered_chunks) |->
        [chunk_index |-> filtered_chunks[i].index,
         text |-> SourceText(filtered_chunks[i].text),
         similarity |-> filtered_chunks[i].similarity]]

\* lines 64-83: the confidence is computed and capped for a refusal, the
\* sources are formatted, and format_guardrail_response gives the response
AskRespond ==
    /\ ask.pc = "generated"
    /\ \E c \in compute_confidence_score(ask.filtered_chunks, ask.answer) :
          LET confidence == RefusalFloor(c, ask.answer)
              sources == Sources(ask.filtered_chunks)
          IN  ask' = [ask EXCEPT
                        !.pc = "returned",
                        !.confidence = confidence,
                        !.response = format_guardrail_response(confidence, ask.answer,
                                                               sources)]
    /\ UNCHANGED <<MAX_RETRIES, TOP_K_CHUNKS>>
    /\ UNCHANGED <<chunkVars, indexVars, guardVars, scoreVars, extractVars, uploadVars>>

----------------------------------------------------------------------------
(* extractor.py: _parse_and_validate *)
\* A response is a sequence of lexemes: the punctuation of JSON, single
\* whitespace characters, the code fence, string literals, a number, null
\* and plain words.  No lexeme other than "{", "}" and the fence contains a
\* brace or a backquote, so strip, startswith, split, find and rfind act on
\* lexemes as they act on characters.

\* extractor.py lines 7-13
EXPECTED_FIELDS ==
    <<"shipment_id", "shipper", "consignee", "pickup_datetime",
      "delivery_datetime", "equipment_type", "mode", "rate", "currency",
      "weight", "carrier_name">>

Fields == {EXPECTED_FIELDS[i] : i \in DOMAIN EXPECTED_FIELDS}

\* the code fence, three backquotes
Fence == "FENCE"

\* the string literals of the responses: the string each one denotes, as a
\* dictionary key and as characters
Denotes ==
    ("\"shipper\"" :> [str |-> "shipper", chars |-> <<"s", "h", "i", "p", "p", "e", "r">>])
    @@ ("\"rate\"" :> [str |-> "rate", chars |-> <<"r", "a", "t", "e">>])
    @@ ("\"foo\"" :> [str |-> "foo", chars |-> <<"f", "o", "o">>])
    @@ ("\"A\"" :> [str |-> "A", chars |-> <<"A">>])
    @@ ("\"\"" :> [str |-> "", chars |-> << >>])
    @@ ("\"  \"" :> [str |-> "  ", chars |-> <<" ", " ">>])

\* Python values: None, a str, an int, a list, a dict (fields: key -> value)
NoFields == [k \in {} |-> 0]

PyNone == [kind |-> "null", str |-> "", chars |-> << >>, fields |-> NoFields]

PyStr(lit) == [PyNone EXCEPT !.kind = "string", !.str = Denotes[lit].str,
                             !.chars = Denotes[lit].chars]

PyInt == [PyNone EXCEPT !.kind = "number", !.str = "42"]

PyList == [PyNone EXCEPT !.kind = "list"]

PyDict(fs) == [PyNone EXCEPT !.kind = "object", !.fields = fs]

\* str.find(d): lowest 0-based offset at which d occurs in s, or -1
Find(s, d) ==
    LET hits == {i \in 0..(Len(s) - Len(d)) : Slice(s, i, i + Len(d)) = d}
    IN  IF hits = {} THEN -1
        ELSE CHOOSE i \in hits : \A j \in hits : i <= j

\* str.split("\n")
SplitLines(s) ==
    LET nl == {i \in 1..Len(s) : s[i] = "\n"}
        n == Cardinality(nl)
        cut(m) == IF m = 0 THEN 0 ELSE IF m = n + 1 THEN Len(s) + 1 ELSE Nth(nl, m)
    IN  [m \in 1..(n + 1) |-> SubSeq(s, cut(m - 1) + 1, cut(m) - 1)]

\* str.startswith of the code fence
StartsWithFence(s) == s # << >> /\ s[1] = Fence

\* json.loads: the offset of the first lexeme at or after i that is not
\* whitespace, Len(ts) + 1 when there is none
SkipWs(ts, i) ==
    LET rest == {j \in i..Len(ts) : ~IsSpace(ts[j])}
    IN  IF rest = {} THEN Len(ts) + 1
        ELSE CHOOSE j \in rest : \A k \in rest : j <= k

JSONDecodeError == [ok |-> FALSE, value |-> PyNone, next |-> 0]

Decoded(v, n) == [ok |-> TRUE, value |-> v, next |-> n]

\* json.loads: one value starting at lexeme i; the members of an object after
\* its "{" (a repeated key keeps its last value); the elements of a list
RECURSIVE ParseValue(_, _), ParseMembers(_, _, _), ParseElements(_, _)
ParseValue(ts, i) ==
    LET j == SkipWs(ts, i)
    IN  IF j > Len(ts) THEN JSONDecodeError
        ELSE IF ts[j] = "{"
             THEN LET k == SkipWs(ts, j + 1)
                  IN  IF k <= Len(ts) /\ ts[k] = "}"
                      THEN Decoded(PyDict(NoFields), k + 1)
                      ELSE ParseMembers(ts, j + 1, NoFields)
        ELSE IF ts[j] = "["
             THEN LET k == SkipWs(ts, j + 1)
                  IN  IF k <= Len(ts) /\ ts[k] = "]"
                      THEN Decoded(PyList, k + 1)
                      ELSE ParseElements(ts, j + 1)
        ELSE IF ts[j] \in DOMAIN Denotes THEN Decoded(PyStr(ts[j]), j + 1)
        ELSE IF ts[j] = "42" THEN Decoded(PyInt, j + 1)
        ELSE IF ts[j] = "null" THEN Decoded(PyNone, j + 1)
        ELSE JSONDecodeError

ParseMembers(ts, i, acc) ==
    LET j == SkipWs(ts, i)
    IN  IF j > Len(ts) \/ ts[j] \notin DOMAIN Denotes THEN JSONDecodeError
        ELSE LET c == SkipWs(ts, j + 1)
             IN  IF c > Len(ts) \/ ts[c] # ":" THEN JSONDecodeError
                 ELSE LET v == ParseValue(ts, c + 1)
                      IN  IF ~v.ok THEN JSONDecodeError
                          ELSE LET e == SkipWs(ts, v.next)
                                   obj == (Denotes[ts[j]].str :> v.value) @@ acc
                               IN  IF e > Len(ts) THEN JSONDecodeError
                                   ELSE IF ts[e] = "}" THEN Decoded(PyDict(obj), e + 1)
                                   ELSE IF ts[e] = "," THEN ParseMembers(ts, e + 1, obj)
                                   ELSE JSONDecodeError

ParseElements(ts, i) ==
    LET v == ParseValue(ts, i)
    IN  IF ~v.ok THEN JSONDecodeError
        ELSE LET e == SkipWs(ts, v.next)
             IN  IF e > Len(ts) THEN JSONDecodeError
                 ELSE IF ts[e] = "]" THEN Decoded(PyList, e + 1)
                 ELSE IF ts[e] = "," THEN ParseElements(ts, e + 1)
                 ELSE JSONDecodeError

\* json.loads(s): one value and nothing but whitespace after it
json_loads(ts) ==
    LET v == ParseValue(ts, 1)
    IN  IF v.ok /\ SkipWs(ts, v.next) > Len(ts) THEN v ELSE JSONDecodeError

\* lines 85-91: strip, then drop the lines that begin with a code fence
WithoutFences(raw_response) ==
    LET cleaned == Strip(raw_response)
    IN  IF StartsWithFence(cleaned)
        THEN Strip(Join(SelectSeq(SplitLines(cleaned),
                                  LAMBDA line : ~StartsWithFence(Strip(line))),
                        <<"\n">>))
        ELSE cleaned

\* lines 93-98: cut to the span from the first "{" to the last "}"
JsonSpan(cleaned) ==
    LET json_start == Find(cleaned, <<"{">>)
        json_end == RFind(cleaned, <<"}">>) + 1
    IN  IF json_start # -1 /\ json_end > json_start
        THEN Slice(cleaned, json_start, json_end)
        ELSE cleaned

\* lines 100-104: json.loads, with {} for a response that does not decode
Extracted(raw_response) ==
    LET loaded == json_loads(JsonSpan(WithoutFences(raw_response)))
    IN  IF loaded.ok THEN loaded.value ELSE PyDict(NoFields)

\* lines 109-111: extracted.get(field), a blank string replaced by None
FieldValue(extracted, field) ==
    LET value == IF field \in DOMAIN extracted.fields
                 THEN extracted.fields[field] ELSE PyNone
    IN  IF value.kind = "string" /\ Strip(value.chars) = << >> THEN PyNone
        ELSE value

NoResult == [f \in {} |-> PyNone]

\* _parse_and_validate: the result, or the exception of extracted.get when
\* the decoded value is not a dict
_parse_and_validate(raw_response) ==
    LET extracted == Extracted(raw_response)
    IN  IF extracted.kind # "object"
        THEN [error |-> "AttributeError", result |-> NoResult]
        ELSE [error |-> None,
              result |-> [f \in Fields |-> FieldValue(extracted, f)]]

\* the raw model responses: an opening, a body and a closing
Openings ==
    {<< >>, <<" ">>, <<"Sorry", " ">>, <<Fence, "json", "\n">>}

Bodies ==
    {<< >>,
     <<"Sorry">>,
     <<"42">>,
     <<"null">>,
     <<"\"A\"">>,
     <<"[", "42", ",", " ", "42", "]">>,
     <<"[", "{", "\"shipper\"", ":", " ", "\"A\"", "}", "]">>,
     <<"{", "}">>,
     <<"{", "\"shipper\"", ":", " ", "\"A\"", "}">>,
     <<"{", "\"shipper\"", ":", " ", "\"A\"">>,
     <<"{", "\"shipper\"", ":", "\"\"", ",", "\n", "\"rate\"", ":", "\"  \"", "}">>,
     <<"{", "\"shipper\"", ":", "42", ",", "\"foo\"", ":", "\"A\"", "}">>,
     <<"{", "\"shipper\"", ":", "null", ",", "\"shipper\"", ":", "\"A\"", "}">>,
     <<"{", "\"shipper\"", ":", "[", "42", "]", ",", "\"rate\"", ":",
       "{", "\"foo\"", ":", "null", "}", "}">>}

Closings ==
    {<< >>, <<"\n">>, <<" ", "bye">>, <<"\n", Fence>>}

RawResponses == {o \o b \o c : o \in Openings, b \in Bodies, c \in Closings}

NoParse == [pc |-> "idle", raw_response |-> << >>, error |-> None,
            result |-> NoResult]

\* a call of _parse_and_validate, from entry to return or exception
ParseAndValidate ==
    /\ parse.pc = "call"
    /\ LET out == _parse_and_validate(parse.raw_response)
       IN  parse' = [parse EXCEPT !.pc = IF out.error = None THEN "returned"
                                         ELSE "raised",
                                  !.error = out.error,
                                  !.result = out.result]
    /\ UNCHANGED notExtractVars

----------------------------------------------------------------------------
(* app.py: upload_document, with document_processor.create_embeddings *)

\* the thread that runs upload_document
UploadThread == "t2"

NotUploaded ==
    [pc |-> "idle", document_id |-> None, chunks |-> << >>, embeddings |-> << >>,
     i |-> 0, attempt |-> 0, not_embedded |-> 0, embed_calls |-> 0,
     embed_error |-> None, save_calls |-> 0, error |-> None]

\* the vectors ollama.embed returns
Embeddings == {Vecs[i] : i \in DOMAIN Vecs}

\* app.py line 181, document_processor.py lines 196-197 and 160-164:
\* process_document has parsed and chunked the file and calls
\* create_embeddings, which starts at chunk 0 with attempt 1
UploadDocument ==
    /\ upload.pc = "call"
    /\ upload' = [upload EXCEPT !.pc = "embed", !.embeddings = << >>, !.i = 0,
                                !.attempt = 1]
    /\ UNCHANGED document_db
    /\ UNCHANGED <<chunkVars, indexVars, guardVars, askVars, scoreVars, extractVars>>

\* lines 166-176: ollama.embed returns; the embedding is appended and the
\* attempt loop left
EmbedChunkSucceeds ==
    /\ upload.pc = "embed"
    /\ upload.i < Len(upload.chunks)
    /\ upload.attempt <= MAX_RETRIES
    /\ \E embedding \in Embeddings :
          upload' = [upload EXCEPT !.embeddings = Append(@, embedding),
                                   !.i = @ + 1, !.attempt = 1,
                                   !.embed_calls = @ + 1]
    /\ UNCHANGED document_db
    /\ UNCHANGED <<chunkVars, indexVars, guardVars, askVars, scoreVars, extractVars>>

\* lines 178-184: ollama.embed raises; RuntimeError at the last attempt, which
\* upload_document turns into HTTPException 500 (app.py lines 185-188),
\* the next attempt otherwise
EmbedChunkFails ==
    /\ upload.pc = "embed"
    /\ upload.i < Len(upload.chunks)
    /\ upload.attempt <= MAX_RETRIES
    /\ upload' = IF upload.attempt = MAX_RETRIES
                 THEN [upload EXCEPT !.pc = "raised", !.embed_error = "RuntimeError",
                                     !.error = "HTTPException",
                                     !.not_embedded = @ + 1,
                                     !.embed_calls = @ + 1]
                 ELSE [upload EXCEPT !.attempt = @ + 1, !.embed_calls = @ + 1]
    /\ UNCHANGED document_db
    /\ UNCHANGED <<chunkVars, indexVars, guardVars, askVars, scoreVars, extractVars>>

\* line 165: range(1, MAX_RETRIES + 1) is empty; the chunk is passed over
\* and the outer loop goes on to the next chunk
EmbedChunkSkipped ==
    /\ upload.pc = "embed"
    /\ upload.i < Len(upload.chunks)
    /\ upload.attempt > MAX_RETRIES
    /\ upload' = [upload EXCEPT !.i = @ + 1, !.attempt = 1, !.not_embedded = @ + 1]
    /\ UNCHANGED document_db
    /\ UNCHANGED <<chunkVars, indexVars, guardVars, askVars, scoreVars, extractVars>>

\* lines 186-187: the outer loop is over and create_embeddings returns
CreateEmbeddingsReturn ==
    /\ upload.pc = "embed"
    /\ upload.i = Len(upload.chunks)
    /\ upload' = [upload EXCEPT !.pc = "save"]
    /\ UNCHANGED document_db
    /\ UNCHANGED <<chunkVars, indexVars, guardVars, askVars, scoreVars, extractVars>>

\* app.py line 191: save_index(document_id, chunks, embeddings), outside the
\* try statement
UploadSaveIndex ==
    /\ upload.pc = "save"
    /\ th[UploadThread].pc = "idle"
    /\ SaveIndexBegin(UploadThread, upload.document_id, upload.chunks, upload.embeddings)
    /\ calls' = calls + 1
    /\ upload' = [upload EXCEPT !.pc = "in_save", !.save_calls = @ + 1]
    /\ UNCHANGED <<faiss_file, json_file, _index_lock>>
    /\ UNCHANGED document_db
    /\ UNCHANGED <<chunkVars, guardVars, askVars, scoreVars, extractVars>>

\* mutant: the document is recorded while save_index is still at work
SaveIndexReturned_Started(t) == th[t].pc # "idle"

\* the call of save_index at app.py line 191 has returned
SaveIndexReturned(t) == th[t].pc = "returned"

\* app.py lines 192-208: save_index has returned; save_document inserts the
\* row, active by default, and the UploadResponse is returned
UploadRespond ==
    /\ upload.pc = "in_save"
    /\ SaveIndexReturned(UploadThread)
    /\ upload' = [upload EXCEPT !.pc = "returned"]
    /\ document_db' = document_db \cup {upload.document_id}
    /\ UNCHANGED <<chunkVars, indexVars, guardVars, askVars, scoreVars, extractVars>>

\* app.py line 191: an exception of save_index leaves upload_document
UploadSaveFails ==
    /\ upload.pc = "in_save"
    /\ th[UploadThread].pc = "raised"
    /\ upload' = [upload EXCEPT !.pc = "raised", !.error = th[UploadThread].error]
    /\ UNCHANGED document_db
    /\ UNCHANGED <<chunkVars, indexVars, guardVars, askVars, scoreVars, extractVars>>

\* app.py lines 211-227: /ask looks the document up in the database; 404
\* when it is not an active document, ask_question otherwise
AskRequest ==
    /\ ask.pc = "idle"
    /\ \E d \in Docs :
          ask' = IF d \in document_db
                 THEN [ask EXCEPT !.pc = "embed", !.document_id = d, !.attempt = 1]
                 ELSE [ask EXCEPT !.pc = "raised", !.document_id = d,
                                  !.error = "HTTPException"]
    /\ UNCHANGED <<MAX_RETRIES, TOP_K_CHUNKS>>
    /\ UNCHANGED <<chunkVars, indexVars, guardVars, scoreVars, extractVars, uploadVars>>

----------------------------------------------------------------------------
(* Specifications: each part run on its own, the others at rest *)

ChunkIdle ==
    /\ raw_text = << >>
    /\ CHUNK_SIZE = 1
    /\ CHUNK_OVERLAP = 0
    /\ text = << >>
    /\ start = 0
    /\ chunks = << >>
    /\ windows = << >>
    /\ chunk_pc = "done"

GuardIdle ==
    /\ SIMILARITY_THRESHOLD = 250
    /\ retrieved_chunks = << >>
    /\ guard_arg = << >>
    /\ guard_out = NoGuardOut
    /\ guard_pc = "returned"
    /\ guard_log = << >>

IndexIdle ==
    /\ faiss_file = [d \in Docs |-> NoFaissFile]
    /\ json_file = [d \in Docs |-> NoJsonFile]
    /\ _index_lock = None
    /\ th = [t \in Threads |-> Idle]
    /\ calls = 0

AskIdle ==
    /\ MAX_RETRIES = 3
    /\ TOP_K_CHUNKS = 5
    /\ ask = NotAsked

ExtractIdle == parse = NoParse

UploadIdle == upload = NotUploaded /\ document_db = {}

\* the confidence thresholds at their defaults, no scoring under way
ScoreIdle ==
    /\ CONFIDENCE_LOW_THRESHOLD = 400
    /\ CONFIDENCE_MEDIUM_THRESHOLD = 700
    /\ scoring = NoScore
    /\ fmt = NoFormat

ChunkInit ==
    /\ ScoreIdle
    /\ ExtractIdle
    /\ UploadIdle
    /\ IndexIdle
    /\ GuardIdle
    /\ AskIdle
    /\ raw_text \in Texts
    /\ CHUNK_SIZE \in 1..MaxChunk
    /\ CHUNK_OVERLAP \in 0..(CHUNK_SIZE - 1)
    /\ text = << >>
    /\ start = 0
    /\ chunks = << >>
    /\ windows = << >>
    /\ chunk_pc = "entry"

ChunkNext == ChunkTextEntry \/ ChunkTextIterate \/ ChunkTextReturn

ChunkSpec == ChunkInit /\ [][ChunkNext]_vars

\* chunk_text on the short texts of ChunkSpec and on long texts with one or
\* two delimiters around the 70% mark of the first window
BreakInit ==
    /\ ScoreIdle
    /\ ExtractIdle
    /\ UploadIdle
    /\ IndexIdle
    /\ GuardIdle
    /\ AskIdle
    /\ \/ /\ raw_text \in Texts
          /\ CHUNK_SIZE \in 1..MaxChunk
          /\ CHUNK_OVERLAP \in 0..(CHUNK_SIZE - 1)
       \/ /\ CHUNK_SIZE \in LongSizes
          /\ raw_text \in LongTexts(CHUNK_SIZE)
          /\ CHUNK_OVERLAP \in LongOverlaps
    /\ text = << >>
    /\ start = 0
    /\ chunks = << >>
    /\ windows = << >>
    /\ chunk_pc = "entry"

BreakSpec == BreakInit /\ [][ChunkNext]_vars

GuardInit ==
    /\ SIMILARITY_THRESHOLD \in Thresholds
    /\ retrieved_chunks \in ResultLists
    /\ guard_arg = retrieved_chunks
    /\ guard_out = NoGuardOut
    /\ guard_pc = "call"
    /\ guard_log = << >>
    /\ IndexIdle
    /\ ChunkIdle
    /\ AskIdle
    /\ ScoreIdle
    /\ ExtractIdle
    /\ UploadIdle

GuardNext == GuardrailCall \/ GuardrailCallAgain

GuardSpec == GuardInit /\ [][GuardNext]_vars

\* the files save_index(d, cs, es) leaves when it has returned
BuiltFaiss(d, es) ==
    [exists |-> TRUE, call |-> 0, written_for |-> d, complete |-> TRUE,
     vectors |-> [i \in 1..Len(es) |-> normalize_L2(es[i])]]

BuiltJson(d, cs) ==
    [exists |-> TRUE, call |-> 0, written_for |-> d, complete |-> TRUE, chunks |-> cs]

\* Document d1 has no index yet, or one that an earlier save_index call with
\* one embedding per chunk left on disk; d2 has none.
IndexInit ==
    /\ \E n \in 0..MaxChunks :
          /\ faiss_file = [d \in Docs |->
                             IF d = "d1" /\ n > 0
                             THEN BuiltFaiss(d, EmbList(n)) ELSE NoFaissFile]
          /\ json_file = [d \in Docs |->
                            IF d = "d1" /\ n > 0
                            THEN BuiltJson(d, ChunkList(n)) ELSE NoJsonFile]
    /\ _index_lock = None
    /\ th = [t \in Threads |-> Idle]
    /\ calls = 0
    /\ ChunkIdle
    /\ GuardIdle
    /\ AskIdle
    /\ ScoreIdle
    /\ ExtractIdle
    /\ UploadIdle

IndexNext ==
    \E t \in Threads :
        \/ SaveIndexEnter(t)
        \/ SaveIndexLock(t)
        \/ SaveIndexOpenFaiss(t)
        \/ SaveIndexWriteFaiss(t)
        \/ SaveIndexOpenJson(t)
        \/ SaveIndexDump(t)
        \/ SearchIndexEnter(t)
        \/ SearchIndexLock(t)
        \/ SearchIndexReadFaiss(t)
        \/ SearchIndexReadJson(t)
        \/ SearchIndexRank(t)
        \/ CallEnds(t)

IndexSpec == IndexInit /\ [][IndexNext]_vars

\* Document d1 has no index, or one that a save_index call with one embedding
\* per chunk built, or one under construction (the .faiss file written, the
\* .json file not yet); d2 has none.
AskInit ==
    /\ \E es \in EmbLists \ {<< >>}, stage \in {"none", "faiss", "built"},
          t \in AskTexts :
          /\ faiss_file = [d \in Docs |->
                             IF d = "d1" /\ stage # "none"
                             THEN BuiltFaiss(d, es) ELSE NoFaissFile]
          /\ json_file = [d \in Docs |->
                            IF d = "d1" /\ stage = "built"
                            THEN BuiltJson(d, AskChunkList(Len(es), t))
                            ELSE NoJsonFile]
    /\ _index_lock = None
    /\ th = [t \in Threads |-> Idle]
    /\ calls = 0
    /\ MAX_RETRIES \in 0..MaxRetries
    /\ TOP_K_CHUNKS \in 1..MaxTopK
    /\ ask = NotAsked
    /\ SIMILARITY_THRESHOLD \in Thresholds
    /\ retrieved_chunks = << >>
    /\ guard_arg = << >>
    /\ guard_out = NoGuardOut
    /\ guard_pc = "returned"
    /\ guard_log = << >>
    /\ ChunkIdle
    /\ ScoreIdle
    /\ ExtractIdle
    /\ UploadIdle

AskNext ==
    \/ AskQuestion
    \/ EmbedQuestionSucceeds
    \/ EmbedQuestionFails
    \/ EmbedQuestionFallsThrough
    \/ AskSearchIndex
    \/ SearchIndexLock(AskThread)
    \/ SearchIndexReadFaiss(AskThread)
    \/ SearchIndexReadJson(AskThread)
    \/ SearchIndexRank(AskThread)
    \/ AskGuardrail
    \/ ChatSucceeds
    \/ ChatFails
    \/ AskRespond

AskSpec == AskInit /\ [][AskNext]_vars

ScoreInit ==
    /\ CONFIDENCE_LOW_THRESHOLD = 400
    /\ CONFIDENCE_MEDIUM_THRESHOLD = 700
    /\ \E n \in 0..MaxScoreChunks :
          \E cs \in ScoreChunkLists(n), a \in ScoreTexts :
              scoring = [NoScore EXCEPT !.pc = "call", !.filtered_chunks = cs,
                                      !.answer = a]
    /\ fmt = NoFormat
    /\ ChunkIdle
    /\ GuardIdle
    /\ IndexIdle
    /\ AskIdle
    /\ ExtractIdle
    /\ UploadIdle

ScoreNext == ComputeConfidenceScore

ScoreSpec == ScoreInit /\ [][ScoreNext]_vars

FormatInit ==
    /\ CONFIDENCE_LOW_THRESHOLD \in ConfidenceThresholds
    /\ CONFIDENCE_MEDIUM_THRESHOLD \in ConfidenceThresholds
    /\ scoring = NoScore
    /\ \E c \in FormatConfidences, a \in FormatAnswers, src \in FormatSources :
          fmt = [NoFormat EXCEPT !.pc = "call", !.confidence = c, !.answer = a,
                                 !.sources = src]
    /\ ChunkIdle
    /\ GuardIdle
    /\ IndexIdle
    /\ AskIdle
    /\ ExtractIdle
    /\ UploadIdle

FormatNext == FormatGuardrailResponse

FormatSpec == FormatInit /\ [][FormatNext]_vars

----------------------------------------------------------------------------
ParseInit ==
    /\ \E r \in RawResponses : parse = [NoParse EXCEPT !.pc = "call", !.raw_response = r]
    /\ ChunkIdle
    /\ GuardIdle
    /\ IndexIdle
    /\ AskIdle
    /\ ScoreIdle
    /\ UploadIdle

ParseNext == ParseAndValidate

ParseSpec == ParseInit /\ [][ParseNext]_vars

----------------------------------------------------------------------------
\* A new document id, no index on disk; chunk_text has returned one to
\* MaxChunks chunks.
UploadInit ==
    /\ IndexIdle
    /\ MAX_RETRIES \in 0..MaxRetries
    /\ TOP_K_CHUNKS = 5
    /\ ask = NotAsked
    /\ \E n \in 1..MaxChunks :
          upload = [NotUploaded EXCEPT !.pc = "call", !.document_id = "d1",
                                       !.chunks = ChunkList(n)]
    /\ document_db = {}
    /\ ChunkIdle
    /\ GuardIdle
    /\ ScoreIdle
    /\ ExtractIdle

UploadNext ==
    \/ UploadDocument
    \/ EmbedChunkSucceeds
    \/ EmbedChunkFails
    \/ EmbedChunkSkipped
    \/ CreateEmbeddingsReturn
    \/ UploadSaveIndex
    \/ SaveIndexLock(UploadThread)
    \/ SaveIndexOpenFaiss(UploadThread)
    \/ SaveIndexWriteFaiss(UploadThread)
    \/ SaveIndexOpenJson(UploadThread)
    \/ SaveIndexDump(UploadThread)
    \/ UploadRespond
    \/ UploadSaveFails

UploadSpec == UploadInit /\ [][UploadNext]_vars

\* One upload, under an id no document has yet, and one /ask request for
\* either id, interleaved step by step.
ServeInit ==
    /\ IndexIdle
    /\ MAX_RETRIES \in 0..1
    /\ TOP_K_CHUNKS = 5
    /\ ask = NotAsked
    /\ \E n \in 1..MaxChunks :
          upload = [NotUploaded EXCEPT !.pc = "call", !.document_id = "d1",
                                       !.chunks = ChunkList(n)]
    /\ document_db = {}
    /\ ChunkIdle
    /\ GuardIdle
    /\ ScoreIdle
    /\ ExtractIdle

ServeNext ==
    \/ UploadNext
    \/ AskRequest
    \/ EmbedQuestionSucceeds
    \/ EmbedQuestionFails
    \/ AskSearchIndex
    \/ SearchIndexLock(AskThread)
    \/ SearchIndexReadFaiss(AskThread)
    \/ SearchIndexReadJson(AskThread)
    \/ SearchIndexRank(AskThread)
    \/ AskGuardrail
    \/ ChatSucceeds
    \/ ChatFails
    \/ AskRespond

ServeSpec == ServeInit /\ [][ServeNext]_vars

----------------------------------------------------------------------------
(* Claims about chunk_text, checked under ChunkSpec *)

ChunkReturned == chunk_pc = "done"

ChunkEnded == chunk_pc \in {"done", "ValueError"}

\* position p (0-based) of the normalized text lies in an emitted chunk's range
Covered(p) == \E i \in 1..Len(chunks) : chunks[i].char_start <= p /\ p < chunks[i].char_end

\* C1: a text whose trimmed form is non-empty and shorter than chunk_size
\* yields exactly one chunk, with char_start = 0 and char_end = len(text).
C1_ShortTextSingleChunk ==
    (ChunkEnded /\ Strip(raw_text) # << >> /\ Len(Strip(raw_text)) < CHUNK_SIZE)
        => /\ ChunkReturned
           /\ Len(chunks) = 1
           /\ chunks[1].char_start = 0
           /\ chunks[1].char_end = Len(Strip(raw_text))

\* C2: the index fields of the chunks, in list order, are 0, 1, ..., n-1.
C2_IndicesSequential ==
    \A i \in 1..Len(chunks) : chunks[i].index = i - 1

\* C2 witness: a finished run with several chunks and a dropped slice
C2_Witness ==
    ChunkReturned /\ Len(chunks) >= 2 /\ Len(windows) > Len(chunks)

\* C3 as claimed: no run of more than CHUNK_OVERLAP consecutive positions of
\* the normalized text is left outside every emitted chunk's range.
C3_NoGapLongerThanOverlap ==
    ChunkReturned =>
        \A p \in 0..(Len(text) - 1 - CHUNK_OVERLAP) :
            \E q \in p..(p + CHUNK_OVERLAP) : Covered(q)

\* C3 as amended: every position of the normalized text outside the ranges of
\* the emitted chunks holds a whitespace character (it belongs to a slice that
\* was dropped as whitespace-only); every other character is covered.
C3_OnlyWhitespaceUncovered ==
    ChunkReturned =>
        \A p \in 0..(Len(text) - 1) : Covered(p) \/ IsSpace(text[p + 1])

\* C3 witness: a finished run that left a position uncovered
C3_Witness ==
    ChunkReturned /\ \E p \in 0..(Len(text) - 1) : ~Covered(p)

\* C4: chunk_text raises ValueError with no chunk exactly when the text is
\* empty or whitespace only, and returns at least one chunk otherwise.
C4_EmptyRaisesElseChunks ==
    ChunkEnded =>
        IF \A i \in 1..Len(raw_text) : IsSpace(raw_text[i])
        THEN chunk_pc = "ValueError" /\ chunks = << >>
        ELSE ChunkReturned /\ Len(chunks) >= 1

\* C4 witness: a non-empty whitespace-only text was refused
C4_Witness ==
    chunk_pc = "ValueError" /\ Len(raw_text) >= 2

\* C21: on every iteration of the while loop the cursor start strictly
\* increases and stays within the text, so the loop runs at most len(text)
\* times and every call of chunk_text ends.
C21_StartIncreasesAndTerminates ==
    /\ [][(chunk_pc = "loop" /\ start < Len(text))
            => (start < start' /\ start' <= Len(text))]_vars
    /\ [](Len(windows) <= Len(text))

\* C21 witness: a finished run with an iteration whose end was moved back
\* to a break and an iteration whose end - overlap did not exceed its start
C21_Witness ==
    /\ ChunkReturned
    /\ \E i \in 1..Len(windows) :
          windows[i][2] < Min(windows[i][1] + CHUNK_SIZE, Len(text))
    /\ \E i \in 1..Len(windows) :
          windows[i][2] - CHUNK_OVERLAP <= windows[i][1]

\* C22: every emitted chunk has char_start < char_end, spans at most
\* CHUNK_SIZE characters and has a non-empty trimmed text; chunks come in
\* non-decreasing char_start order; every scan window after the first starts
\* between the previous window's end minus CHUNK_OVERLAP and that end, so
\* consecutive chunks share at most CHUNK_OVERLAP characters.
C22_ChunkShape ==
    /\ \A i \in 1..Len(chunks) :
          /\ chunks[i].char_start < chunks[i].char_end
          /\ chunks[i].char_end - chunks[i].char_start <= CHUNK_SIZE
          /\ chunks[i].text # << >>
          /\ ~IsSpace(chunks[i].text[1])
          /\ ~IsSpace(chunks[i].text[Len(chunks[i].text)])
    /\ \A i \in 1..(Len(chunks) - 1) :
          /\ chunks[i].char_start <= chunks[i + 1].char_start
          /\ chunks[i].char_end - chunks[i + 1].char_start <= CHUNK_OVERLAP
    /\ \A i \in 1..(Len(windows) - 1) :
          /\ windows[i][2] - CHUNK_OVERLAP <= windows[i + 1][1]
          /\ windows[i + 1][1] <= windows[i][2]

\* C22 witness: a finished run with a chunk of full size, two consecutive
\* chunks that share exactly CHUNK_OVERLAP > 0 characters, and a dropped
\* whitespace-only slice
C22_Witness ==
    /\ ChunkReturned
    /\ CHUNK_OVERLAP > 0
    /\ \E i \in 1..Len(chunks) :
          chunks[i].char_end - chunks[i].char_start = CHUNK_SIZE
    /\ \E i \in 1..(Len(chunks) - 1) :
          chunks[i].char_end - chunks[i + 1].char_start = CHUNK_OVERLAP
    /\ Len(windows) > Len(chunks)

\* the offsets p in the break window of the tentative window [s, e) at
\* which delimiter kind k occurs, the whole delimiter before e
BreakOffsets(s, e, k) ==
    {p \in (s + ((7 * (e - s)) \div 10))..(e - Len(Delimiters[k])) :
        Slice(text, p, p + Len(Delimiters[k])) = Delimiters[k]}

\* the kinds of delimiter that occur in the break window of [s, e)
KindsPresent(s, e) == {k \in 1..Len(Delimiters) : BreakOffsets(s, e, k) # {}}

\* the tentative end of the scan window that starts at s
TentativeEnd(s) == Min(s + CHUNK_SIZE, Len(text))

\* C23: when more text follows the tentative end, the chunk end is just after
\* the last occurrence, within the last 30% of the tentative window, of the
\* highest-priority delimiter kind present there; with no delimiter there the
\* tentative end is kept; and a tentative end at the end of the text is kept.
C23_BreakAtLastBestDelimiter ==
    \A i \in 1..Len(windows) :
        LET s == windows[i][1]
            e == TentativeEnd(s)
            present == KindsPresent(s, e)
        IN  IF e = Len(text) \/ present = {}
            THEN windows[i][2] = e
            ELSE LET k == CHOOSE k \in present : \A m \in present : k <= m
                     p == CHOOSE p \in BreakOffsets(s, e, k) :
                              \A q \in BreakOffsets(s, e, k) : q <= p
                 IN  windows[i][2] = p + Len(Delimiters[k])

----------------------------------------------------------------------------
(* Claims about save_index and search_index, checked under IndexSpec *)

Searching(t) == th[t].op = "search_index"

Saving(t) == th[t].op = "save_index"

InLockedSection(t) ==
    th[t].pc \in {"save_open_faiss", "save_write_faiss", "save_open_json",
                  "save_dump", "search_read_faiss", "search_read_json"}

WaitsForLock(t) == th[t].pc \in {"save_lock", "search_lock"}

\* the arguments of the running save_index call are not a list of one or
\* more chunk/embedding pairs
BadBuildInput(t) ==
    \/ Len(th[t].chunks) # Len(th[t].embeddings)
    \/ Len(th[t].embeddings) = 0

\* C5: save_index called with len(chunks) # len(embeddings), or with no
\* pair at all, fails and writes nothing: it does not return normally and no
\* file is created or replaced by it.
C5_BadBuildInputRejected ==
    \A t \in Threads :
        (Saving(t) /\ BadBuildInput(t)) =>
            /\ th[t].pc # "returned"
            /\ \A d \in Docs : /\ faiss_file[d].call # th[t].call
                               /\ json_file[d].call # th[t].call

\* C6: a search_index call that got past its reads holds a vector index and a
\* chunk list that are both complete and were written by the same save_index
\* call.
C6_SearchSeesOneBuild ==
    \A t \in Threads :
        (Searching(t) /\ th[t].pc \in {"search_rank", "returned"}) =>
            /\ th[t].index.complete
            /\ th[t].chunks_read.complete
            /\ th[t].index.call = th[t].chunks_read.call

\* C6 witness: a search that started before a rebuild of its document did
\* returned rows read from that rebuild
C6_Witness ==
    \E t, u \in Threads :
        /\ Searching(t) /\ th[t].pc = "returned" /\ Len(th[t].results) > 0
        /\ Saving(u) /\ th[u].document_id = th[t].document_id
        /\ th[u].call > th[t].call
        /\ th[t].index.call = th[u].call

Behind(t, r) ==
    {i \in 1..Len(th[t].chunks_read.chunks) :
        /\ th[t].chunks_read.chunks[i].index = r.index
        /\ th[t].chunks_read.chunks[i].text = r.text
        /\ i <= Len(th[t].index.vectors)
        /\ InnerProduct(normalize_L2(th[t].query_embedding),
                        th[t].index.vectors[i]) = r.similarity}

\* C8: a search_index call that returns, on an index with n chunks, returns
\* min(top_k, n) rows in non-increasing similarity, equal similarities in
\* ascending chunk index, each row with the index and text of the stored
\* chunk whose embedding gave the similarity.
C8_TopKOrdered ==
    \A t \in Threads :
        (Searching(t) /\ th[t].pc = "returned") =>
            LET rs == th[t].results
            IN  /\ Len(rs) = Min(th[t].top_k, Len(th[t].chunks_read.chunks))
                /\ \A i \in 1..(Len(rs) - 1) :
                      \/ rs[i].similarity > rs[i + 1].similarity
                      \/ /\ rs[i].similarity = rs[i + 1].similarity
                         /\ rs[i].index < rs[i + 1].index
                /\ \A i \in 1..Len(rs) : Behind(t, rs[i]) # {}

----------------------------------------------------------------------------
(* Claims about ask_question, checked under AskSpec *)

AskEnded == ask.pc \in {"returned", "raised"}

\* no save_index call for d has run to its end: one of the two files of d is
\* absent or unfinished
NoIndexBuilt(d) ==
    \/ d = None
    \/ ~faiss_file[d].complete
    \/ ~json_file[d].complete

\* C9: on a document with no index, search_index raises FileNotFoundError
\* and returns no row; ask_question ends with that error after one
\* search_index call and no call of the chat model.
C9_NoIndexNotFound ==
    /\ \A t \in Threads :
          (Searching(t) /\ NoIndexBuilt(th[t].document_id)) =>
              /\ th[t].pc = "raised"
              /\ th[t].error = "FileNotFoundError"
              /\ th[t].results = << >>
    /\ (ask.search_calls > 0 /\ NoIndexBuilt(ask.document_id)) =>
          /\ ask.search_calls = 1
          /\ ask.chat_calls = 0
          /\ ask.pc \in {"in_search", "raised"}
          /\ ask.pc = "raised" => ask.error = "FileNotFoundError"
          /\ ask.response = NoResponse

\* C9 witness: ask_question has ended with FileNotFoundError on a document
\* whose .faiss file is there and whose .json file is not, after the
\* embedding needed a retry
C9_Witness ==
    /\ ask.pc = "raised"
    /\ ask.error = "FileNotFoundError"
    /\ ask.embed_calls >= 2
    /\ ask.document_id # None
    /\ faiss_file[ask.document_id].complete
    /\ ~json_file[ask.document_id].exists

\* the answer the chat model gave says "not found in document", in any case
Refuses(answer) == Contains(Lower(answer), RefusalPhrase)

\* C14: in every response of ask_question whose generated answer contains
\* "not found in document" in any letter case, the confidence is at most 0.2.
C14_RefusalFloor ==
    (ask.pc = "returned" /\ ask.answered /\ Refuses(ask.answer)) =>
        ask.response.confidence <= 200

\* C14 witness: an upper-case refusal over a chunk of similarity 1.0 came
\* back with the confidence cut to 0.2
C14_Witness ==
    /\ ask.pc = "returned"
    /\ ask.answered
    /\ Refuses(ask.answer)
    /\ ~Contains(ask.answer, RefusalPhrase)
    /\ \E i \in 1..Len(ask.filtered_chunks) : ask.filtered_chunks[i].similarity = 1000
    /\ ask.response.confidence = 200

\* search_index returned and none of its rows reaches the threshold
NoEvidence ==
    /\ ask.searched
    /\ \A i \in 1..Len(ask.retrieved_chunks) :
          ask.retrieved_chunks[i].similarity < SIMILARITY_THRESHOLD

\* C16: when no retrieved chunk passes the threshold the chat model is never
\* called and the response is the no-evidence payload (confidence 0.0, no
\* sources, guardrail_triggered); the chat model is called only after the
\* guardrail passed.
C16_NoEvidenceNoGeneration ==
    /\ NoEvidence =>
          /\ ask.chat_calls = 0
          /\ ask.pc = "returned"
          /\ ask.response = NoEvidenceResponse
          /\ ask.response.confidence = 0
          /\ ask.response.sources = << >>
          /\ ask.response.guardrail_triggered
    /\ ask.chat_calls > 0 =>
          /\ ask.searched
          /\ \E i \in 1..Len(ask.retrieved_chunks) :
                ask.retrieved_chunks[i].similarity >= SIMILARITY_THRESHOLD

\* C16 witness: two rows were retrieved, both under the threshold, and the
\* no-evidence payload came back
C16_Witness ==
    /\ NoEvidence
    /\ Len(ask.retrieved_chunks) = 2
    /\ ask.pc = "returned"
    /\ ask.response = NoEvidenceResponse

\* _embed_question is over and has given no embedding
EmbeddingFailed == ask.pc \notin {"idle", "embed"} /\ IsNone(ask.query_embedding)

\* _call_llm_with_retry is over and has given no answer
GenerationFailed == ask.chat_calls > 0 /\ ask.pc # "chat" /\ ~ask.answered

\* C17: when the embedding call or the generation call has failed on every
\* permitted attempt, ask_question ends with an error and no payload; after
\* a failed embedding neither search_index nor the chat model is called.
C17_UpstreamFailurePropagates ==
    /\ EmbeddingFailed =>
          /\ ask.search_calls = 0
          /\ ask.chat_calls = 0
          /\ ask.response = NoResponse
          /\ AskEnded => ask.pc = "raised"
    /\ GenerationFailed =>
          /\ ask.pc = "raised"
          /\ ask.response = NoResponse

\* _embed_question has completed normally: its result is being passed on
EmbedReturned == ask.pc = "search" \/ ask.search_calls > 0

\* C27: for every MAX_RETRIES each retry helper makes at most MAX_RETRIES
\* attempts, stops at the first success and returns its result, raises
\* RuntimeError once MAX_RETRIES attempts have failed, and never completes
\* normally without the result of a successful attempt.
C27_RetryHelpers ==
    /\ ask.embed_calls <= MAX_RETRIES
    /\ ask.chat_calls <= MAX_RETRIES
    /\ EmbedReturned => (~IsNone(ask.query_embedding) /\ ask.embed_calls >= 1)
    /\ ask.pc = "generated" => (ask.answered /\ ask.chat_calls >= 1)
    /\ ask.error = "RuntimeError" =>
          \/ ask.embed_calls = MAX_RETRIES /\ ~EmbedReturned
          \/ ask.chat_calls = MAX_RETRIES /\ ~ask.answered

\* the retrieved rows whose similarity reaches the threshold, in retrieval
\* order
Survivors ==
    SelectSeq(ask.retrieved_chunks,
              LAMBDA row : row.similarity >= SIMILARITY_THRESHOLD)

\* C26: in every response produced after generation, sources lists exactly
\* the chunks that survived the retrieval guardrail, in that order and with
\* their chunk indices, as they were placed in the prompt context; each
\* source text is the first 300 characters of the chunk text, followed by
\* "..." exactly when the chunk text is longer than 300 characters.
C26_SourcesAreFilteredChunks ==
    (ask.pc = "returned" /\ ask.answered) =>
        LET sources == ask.response.sources
        IN  /\ Len(sources) = Len(Survivors)
            /\ Len(ask.context) = Len(Survivors)
            /\ \A i \in 1..Len(Survivors) :
                  LET t == Survivors[i].text
                  IN  /\ sources[i].chunk_index = Survivors[i].index
                      /\ ask.context[i].section = Survivors[i].index
                      /\ ask.context[i].text = t
                      /\ IF Len(t) > 300
                         THEN sources[i].text = SubSeq(t, 1, 300) \o <<".", ".", ".">>
                         ELSE sources[i].text = t

\* C26 witness: a response with two sources, the first cut to 300 characters,
\* after retrieval returned the chunks out of index order
C26_Witness ==
    /\ ask.pc = "returned"
    /\ ask.answered
    /\ Len(ask.response.sources) = 2
    /\ \E i \in 1..2 : Len(ask.response.sources[i].text) = 303
    /\ ask.response.sources[1].chunk_index > ask.response.sources[2].chunk_index

----------------------------------------------------------------------------
(* Claims about apply_retrieval_guardrail, checked under GuardSpec *)

\* f maps the positions of short to positions of long, strictly increasing
Embeds(f, short, long) ==
    /\ \A i \in 1..Len(short) : short[i] = long[f[i]]
    /\ \A i, j \in 1..Len(short) : i < j => f[i] < f[j]

\* C10: filtered holds exactly the rows of the input with similarity >=
\* threshold, in their original order; passed is true exactly when filtered
\* is not empty; the input list is as it was.
C10_GuardrailFilter ==
    guard_pc = "returned" =>
        LET keep == {j \in 1..Len(guard_arg) :
                        guard_arg[j].similarity >= SIMILARITY_THRESHOLD}
            out == guard_out.filtered
        IN  /\ Len(out) = Cardinality(keep)
            /\ \E f \in [1..Len(out) -> keep] : Embeds(f, out, guard_arg)
            /\ guard_out.passed = (out # << >>)
            /\ retrieved_chunks = guard_arg

\* C10 witness: a row exactly at the threshold was kept, another dropped
C10_Witness ==
    /\ guard_pc = "returned"
    /\ \E i \in 1..Len(guard_out.filtered) :
          guard_out.filtered[i].similarity = SIMILARITY_THRESHOLD
    /\ Len(guard_out.filtered) < Len(guard_arg)
    /\ Len(guard_out.filtered) >= 2

\* the rows of a result list, as a set
Rows(rs) == {rs[i] : i \in 1..Len(rs)}

\* C11: for one list and two thresholds t1 <= t2, the rows kept at t2 are
\* among the rows kept at t1, they are no more, and passing at t2 implies
\* passing at t1.
C11_GuardrailMonotone ==
    \A i, j \in 1..Len(guard_log) :
        guard_log[i].threshold <= guard_log[j].threshold =>
            /\ Rows(guard_log[j].out.filtered) \subseteq Rows(guard_log[i].out.filtered)
            /\ Len(guard_log[j].out.filtered) <= Len(guard_log[i].out.filtered)
            /\ guard_log[j].out.passed => guard_log[i].out.passed

\* C11 witness: the list was filtered at a lower and at a higher threshold,
\* the higher one kept fewer rows (but some), and the later call was the
\* one at the lower threshold
C11_Witness ==
    /\ Len(guard_log) = 2
    /\ guard_log[2].threshold < guard_log[1].threshold
    /\ Len(guard_log[1].out.filtered) < Len(guard_log[2].out.filtered)
    /\ Len(guard_log[1].out.filtered) > 0

----------------------------------------------------------------------------
(* Claims about compute_confidence_score, checked under ScoreSpec *)

ScoreReturned == scoring.pc = "returned"

\* C12: for similarities anywhere in [-1, 1] and every answer, the score s
\* returned by compute_confidence_score has 0.0 <= s <= 1.0.
C12_ConfidenceInUnitInterval ==
    ScoreReturned => (0 <= scoring.confidence /\ scoring.confidence <= 1000)

\* C13: compute_confidence_score returns exactly 0.0 when the filtered list
\* is empty, whatever the answer.
C13_EmptyListScoresZero ==
    (ScoreReturned /\ scoring.filtered_chunks = << >>) => scoring.confidence = 0

\* C13 witness: an empty list was scored with an answer of two long words
C13_Witness ==
    /\ ScoreReturned
    /\ scoring.filtered_chunks = << >>
    /\ Len(AnswerWords(scoring.answer)) = 2

\* C18: with a single chunk and an answer identical to its text, the
\* coverage is 1.0, and with similarity 0.9 the confidence is 0.810.
C18_IdenticalAnswerFullCoverage ==
    (/\ ScoreReturned
     /\ Len(scoring.filtered_chunks) = 1
     /\ scoring.answer = scoring.filtered_chunks[1].text) =>
        /\ scoring.coverage.num = scoring.coverage.den
        /\ scoring.filtered_chunks[1].similarity = 900 => scoring.confidence = 810

\* the answer tokens that have more than 3 characters once lower-cased and
\* stripped of surrounding punctuation, in that form
Qualifying(answer) ==
    LET tokens == Split(answer)
        stripped == [i \in 1..Len(tokens) |-> StripChars(Lower(tokens[i]), Punctuation)]
    IN  SelectSeq(stripped, LAMBDA w : Len(w) > 3)

\* C25: the coverage is the number of qualifying answer tokens found in the
\* lower-cased source token set over the number of qualifying tokens, a
\* token qualifying when it has more than 3 characters after its surrounding
\* punctuation is stripped; it is 1.0 when no token qualifies.
C25_CoverageOverStrippedTokens ==
    (ScoreReturned /\ scoring.filtered_chunks # << >>) =>
        LET q == Qualifying(scoring.answer)
            found == {i \in 1..Len(q) : q[i] \in SourceWords(scoring.filtered_chunks)}
        IN  IF q = << >>
            THEN scoring.coverage.num = scoring.coverage.den
            ELSE scoring.coverage.num * Len(q) = Cardinality(found) * scoring.coverage.den

\* the similarities of the scored chunks
ScoredSims == [i \in 1..Len(scoring.filtered_chunks) |-> scoring.filtered_chunks[i].similarity]

\* C24: for a non-empty filtered list the score is 0.40 R + 0.30 A + 0.30 C
\* rounded to three decimals, where R is the mean similarity capped at 1.0, A
\* is 1.0 - min(1.0, max - min) for two or more results and 0.5 for one, and
\* C is the answer coverage.  In thousandths, with C = num / den and
\* D = 10 * n * den: D * score is within D / 2 of 4 nR den + 3 A n den +
\* 3000 num n.
C24_WeightedSum ==
    (ScoreReturned /\ scoring.filtered_chunks # << >>) =>
        LET n == Len(ScoredSims)
            total == SumSeq(ScoredSims)
            nR == IF total > 1000 * n THEN 1000 * n ELSE total
            spread == SeqMax(ScoredSims) - SeqMin(ScoredSims)
            A == IF n = 1 THEN 500
                 ELSE IF spread > 1000 THEN 0 ELSE 1000 - spread
            den == scoring.coverage.den
            num == scoring.coverage.num
            D == 10 * n * den
            exact == 4 * nR * den + 3 * A * n * den + 3000 * num * n
        IN  /\ 2 * (D * scoring.confidence - exact) <= D
            /\ 2 * (exact - D * scoring.confidence) <= D

\* C24 witness: two results of different similarity were scored with an
\* answer that is partly covered
C24_Witness ==
    /\ ScoreReturned
    /\ Len(scoring.filtered_chunks) = 2
    /\ SeqMax(ScoredSims) - SeqMin(ScoredSims) = 100
    /\ 0 < scoring.coverage.num
    /\ scoring.coverage.num < scoring.coverage.den

----------------------------------------------------------------------------
(* Claims about format_guardrail_response, checked under FormatSpec *)

\* C15: for low < medium, confidence < low is refused (fixed message,
\* triggered), low <= confidence < medium is soft-warned (answer behind the
\* prefix, triggered), confidence >= medium passes (answer unchanged, not
\* triggered, no reason); confidence and sources are returned unchanged.
C15_ThreeTiers ==
    (fmt.pc = "returned" /\ CONFIDENCE_LOW_THRESHOLD < CONFIDENCE_MEDIUM_THRESHOLD) =>
        LET r == fmt.response
            c == fmt.confidence
        IN  /\ r.confidence = c
            /\ r.sources = fmt.sources
            /\ c < CONFIDENCE_LOW_THRESHOLD =>
                  /\ r.answer = RefusalMessage
                  /\ r.guardrail_triggered
            /\ (CONFIDENCE_LOW_THRESHOLD <= c /\ c < CONFIDENCE_MEDIUM_THRESHOLD) =>
                  /\ r.answer = LowConfidencePrefix \o fmt.answer
                  /\ r.guardrail_triggered
            /\ c >= CONFIDENCE_MEDIUM_THRESHOLD =>
                  /\ r.answer = fmt.answer
                  /\ ~r.guardrail_triggered
                  /\ r.guardrail_reason = None

\* C15 witness: a confidence exactly at the low threshold was soft-warned,
\* its sources attached
C15_Witness ==
    /\ fmt.pc = "returned"
    /\ CONFIDENCE_LOW_THRESHOLD < CONFIDENCE_MEDIUM_THRESHOLD
    /\ fmt.confidence = CONFIDENCE_LOW_THRESHOLD
    /\ fmt.answer # << >>
    /\ fmt.response.answer = LowConfidencePrefix \o fmt.answer
    /\ fmt.response.sources # << >>

----------------------------------------------------------------------------
(* Claims about _parse_and_validate, checked under ParseSpec *)

ParseEnded == parse.pc \in {"returned", "raised"}

\* the response is valid JSON but not an object
ValidNonObject ==
    LET loaded == json_loads(parse.raw_response)
    IN  loaded.ok /\ loaded.value.kind # "object"

\* the response is free text: no brace in it
FreeText == \A i \in 1..Len(parse.raw_response) : parse.raw_response[i] \notin {"{", "}"}

\* C19: for every raw response _parse_and_validate returns, never raises, a
\* mapping whose keys are exactly the 11 expected fields; every value is null
\* when the response is free text or valid JSON that is not an object; and no
\* returned value is an empty or whitespace-only string.
C19_ParseAlwaysReturnsAllFields ==
    ParseEnded =>
        /\ parse.pc = "returned"
        /\ DOMAIN parse.result = Fields
        /\ Cardinality(Fields) = 11
        /\ (ValidNonObject \/ FreeText) =>
               \A f \in Fields : parse.result[f] = PyNone
        /\ \A f \in Fields :
               ~(parse.result[f].kind = "string" /\ Strip(parse.result[f].chars) = << >>)

----------------------------------------------------------------------------
(* Claims about upload_document, checked under UploadSpec *)

\* create_embeddings has returned to process_document
EmbeddingsReturned == upload.pc \in {"save", "in_save", "returned"} \/ upload.save_calls > 0

\* the index of the uploaded document is on disk
UploadIndexBuilt ==
    /\ faiss_file[upload.document_id].complete
    /\ json_file[upload.document_id].complete

\* C20: whenever create_embeddings returns there is one embedding per chunk,
\* for every MAX_RETRIES; a built index holds one vector per chunk; and when a
\* chunk could not be embedded create_embeddings has raised and save_index is
\* never called.
C20_OneEmbeddingPerChunk ==
    /\ EmbeddingsReturned => Len(upload.embeddings) = Len(upload.chunks)
    /\ (upload.document_id # None /\ UploadIndexBuilt) =>
          /\ Len(faiss_file[upload.document_id].vectors) = Len(upload.chunks)
          /\ json_file[upload.document_id].chunks = upload.chunks
    /\ upload.not_embedded > 0 =>
          /\ upload.embed_error = "RuntimeError"
          /\ upload.save_calls = 0

----------------------------------------------------------------------------
(* Claims about upload_document and /ask together, checked under ServeSpec *)

\* C28: under every interleaving of an upload and an /ask request, a document
\* id recorded as active in the database has a complete index, both the
\* vector file and the chunk list; an /ask request that was accepted never
\* finds the index missing.
C28_ActiveDocumentHasIndex ==
    /\ \A d \in document_db :
          /\ faiss_file[d].exists /\ faiss_file[d].complete
          /\ json_file[d].exists /\ json_file[d].complete
    /\ ask.error # "FileNotFoundError"

\* C28 witness: the upload recorded its document, and an /ask request for it
\* was accepted and answered with sources
C28_Witness ==
    /\ "d1" \in document_db
    /\ ask.document_id = "d1"
    /\ ask.pc = "returned"
    /\ ask.response.sources # << >>

====
